---- MODULE Spec2Model ----
(***************************************************************************)
(* Threat-intel graph visualizer: the report normalizer (parseThreatData), *)
(* the sandbox merge, the link deduplication, the GeoIP range index, the   *)
(* shortest-path search and the AS-graph derivation.                       *)
(*                                                                         *)
(* Strings are sequences of UTF-16 code units, so that concatenation,      *)
(* joining, splitting, sorting and substring tests are computed the way    *)
(* the JavaScript runtime computes them.  An absent (undefined) string     *)
(* field is the empty sequence: every use of such a field in the modelled  *)
(* code is a truthiness test or a `|| ''` default, for which the two       *)
(* agree.  JavaScript numbers beyond 31 bits are records [hi, lo] that     *)
(* stand for hi * 65536 + lo with lo in 0..65535.                          *)
(***************************************************************************)
EXTENDS Integers, Sequences, FiniteSets, TLC

VARIABLES
    ipv4Ranges,        \* geoIpData.ts: the sorted ranges (<<>> for null)
    currentGeoIpJson,  \* geoIpData.ts: the source text last processed
    geoStatus,         \* outcome of the last initGeoIpData call
    geoQuery,          \* argument of the last getCountryForIp call
    geoAnswer,         \* what that call returned (<<>> for null)
    aiAvailable,       \* geminiService: what isAiAvailable() returns
    error,             \* App.tsx: the error state handleVisualize sets
    graphSet,          \* App.tsx: whether handleVisualize has set graphData
    pc,                \* parseThreatData: where the running call stands
    mispData,          \* parseThreatData: the report passed in
    sandboxFile,       \* parseThreatData: whether a sandbox file was passed
    geoIpJson,         \* parseThreatData: third argument
    sandboxData,       \* what analyzeSandboxPdfWithGemini resolved to
    nodes,             \* parseThreatData: nodes
    links,             \* parseThreatData: links (accumulated)
    nodeIds,           \* parseThreatData: nodeIds
    uniqueLinks,       \* parseThreatData: the links of the returned graph
    enrichedIpCount,   \* parseThreatData: geoEnrichedIps.size
    ipAddressesToEnrich,
    pathPc,            \* findShortestPath: where the running call stands
    graphData,         \* App.tsx: the graph the call reads (links only)
    startNodeId,       \* findShortestPath: first argument
    endNodeId,         \* findShortestPath: second argument
    adj,               \* findShortestPath: adj
    queue,             \* findShortestPath: queue
    visited,           \* findShortestPath: visited
    pathResult,        \* what findShortestPath returned
    asPc,              \* deriveAsGraph: whether a call has returned
    fullGraph,         \* deriveAsGraph: its argument
    asResult,          \* what deriveAsGraph returned
    currentGraphData,  \* App.tsx: the graphData state (nodes with label and asn)
    asGraphData,       \* App.tsx: the asGraphData state
    isVisualizing,     \* App.tsx: the isVisualizing state
    pendingRun,        \* handleVisualize: the run awaiting parseThreatData
    runCount,          \* how many runs of handleVisualize have begun
    graphRun,          \* the run whose result graphData was set from (0: none)
    asnFetches,        \* fetchAsnInfoForIps calls not yet settled
    isPathfinding,     \* App.tsx: the isPathfinding state
    pathfinderSelection, \* App.tsx: the ids of the nodes selected, in order
    pathfinderResult,  \* App.tsx: the pathfinderResult state
    isFindingPath,     \* App.tsx: the isFindingPath state
    finderError,       \* App.tsx: the error state as the pathfinder sets it
    narratives,        \* generatePathNarrative calls not yet settled
    searches           \* path searches started since pathfinder mode was entered

geoVars == <<ipv4Ranges, currentGeoIpJson, geoStatus, geoQuery, geoAnswer>>

parseVars ==
    <<aiAvailable, error, graphSet, pc, mispData, sandboxFile, geoIpJson, sandboxData,
      nodes, links, nodeIds, uniqueLinks, enrichedIpCount, ipAddressesToEnrich>>

pathVars ==
    <<pathPc, graphData, startNodeId, endNodeId, adj, queue, visited, pathResult>>

asVars == <<asPc, fullGraph, asResult>>

enrichVars ==
    <<currentGraphData, asGraphData, isVisualizing, pendingRun, runCount, graphRun,
      asnFetches>>

finderVars ==
    <<isPathfinding, pathfinderSelection, pathfinderResult, isFindingPath, finderError,
      narratives, searches>>

uiVars == <<enrichVars, finderVars>>

appVars == <<pathVars, asVars, uiVars>>

vars == <<geoVars, parseVars, appVars>>

(***************************************************************************)
(* Bounds of the model.                                                    *)
(***************************************************************************)
MaxRanges == 2

MaxLinks == 5

MaxAsLinks == 3

MaxObjects == 3

\* Runs of handleVisualize in one behaviour.
MaxRuns == 3

\* Node clicks taken while pathfinder mode stays on.
MaxSelection == 3

\* generatePathNarrative calls in flight at a time.
MaxNarratives == 2

(***************************************************************************)
(* String primitives.                                                      *)
(***************************************************************************)
StartsWith(s, p) == Len(p) <= Len(s) /\ SubSeq(s, 1, Len(p)) = p

Includes(s, sub) ==
    \E i \in 1..(Len(s) - Len(sub) + 1) : SubSeq(s, i, i + Len(sub) - 1) = sub

\* String.prototype.substring(from) / substring(0, to), 0-based.
SubstringFrom(s, from) == SubSeq(s, from + 1, Len(s))

SubstringTo(s, to) == SubSeq(s, 1, to)

LowerUnit(c) == IF c >= 65 /\ c <= 90 THEN c + 32 ELSE c

UpperUnit(c) == IF c >= 97 /\ c <= 122 THEN c - 32 ELSE c

ToLowerCase(s) == [i \in 1..Len(s) |-> LowerUnit(s[i])]

ToUpperCase(s) == [i \in 1..Len(s) |-> UpperUnit(s[i])]

\* The order Array.prototype.sort() uses without a comparator: code units,
\* left to right, a proper prefix first.
RECURSIVE StrLess(_, _)
StrLess(a, b) ==
    IF b = <<>> THEN FALSE
    ELSE IF a = <<>> THEN TRUE
    ELSE IF Head(a) # Head(b) THEN Head(a) < Head(b)
    ELSE StrLess(Tail(a), Tail(b))

\* [a, b].sort()
SortPair(a, b) == IF StrLess(b, a) THEN <<b, a>> ELSE <<a, b>>

\* [a, b].sort().join('-')
JoinPair(ids) == ids[1] \o <<45>> \o ids[2]

\* The key without the sort of line 252.
UnsortedJoin(a, b) == JoinPair(<<a, b>>)

SortedJoin(a, b) == JoinPair(SortPair(a, b))

\* String.prototype.split(sep) for a one-unit separator.
RECURSIVE Split(_, _)
Split(s, sep) ==
    IF \A i \in 1..Len(s) : s[i] # sep THEN <<s>>
    ELSE LET k == CHOOSE i \in 1..Len(s) :
                      s[i] = sep /\ \A j \in 1..(i - 1) : s[j] # sep
         IN  <<SubSeq(s, 1, k - 1)>> \o Split(SubSeq(s, k + 1, Len(s)), sep)

IsDigit(c) == c >= 48 /\ c <= 57

RECURSIVE DigitsValue(_, _)
DigitsValue(s, acc) ==
    IF s = <<>> \/ ~IsDigit(Head(s)) THEN acc
    ELSE DigitsValue(Tail(s), acc * 10 + (Head(s) - 48))

RECURSIVE SkipSpaces(_)
SkipSpaces(s) == IF s # <<>> /\ Head(s) = 32 THEN SkipSpaces(Tail(s)) ELSE s

\* parseInt(s, 10): leading blanks, an optional sign, then the longest run of
\* digits; NaN when there is no digit.
ParseDigits(neg, body) ==
    IF body = <<>> \/ ~IsDigit(Head(body)) THEN [nan |-> TRUE, val |-> 0]
    ELSE [nan |-> FALSE,
          val |-> IF neg THEN 0 - DigitsValue(body, 0) ELSE DigitsValue(body, 0)]

ParseTrimmed(t) ==
    IF t # <<>> /\ (Head(t) = 45 \/ Head(t) = 43)
    THEN ParseDigits(Head(t) = 45, Tail(t))
    ELSE ParseDigits(FALSE, t)

ParseInt(s) == ParseTrimmed(SkipSpaces(s))

\* String(n) for a natural number (template literals, test addresses).
RECURSIVE DecStr(_)
DecStr(n) == IF n < 10 THEN <<48 + n>> ELSE DecStr(n \div 10) \o <<48 + (n % 10)>>

(***************************************************************************)
(* Numbers.                                                                *)
(***************************************************************************)
Num(hi, lo) == [hi |-> hi, lo |-> lo]

NumLess(a, b) == a.hi < b.hi \/ (a.hi = b.hi /\ a.lo < b.lo)

NumLeq(a, b) == ~NumLess(b, a)

\* (acc << 8) for a 32-bit signed acc: the low 24 bits move up, bit 23
\* becomes the sign.
ShiftLeft8(acc) ==
    LET low23 == acc % 8388608
        bit23 == (acc \div 8388608) % 2
    IN  IF bit23 = 1 THEN ((low23 * 256) - 2147483647) - 1 ELSE low23 * 256

\* x >>> 0 for a 32-bit signed x: the same bits read as unsigned.
ToUint32(x) == Num((x \div 65536) % 65536, x % 65536)

(***************************************************************************)
(* geoIpData.ts                                                            *)
(***************************************************************************)
IpNull == [null |-> TRUE, hi |-> 0, lo |-> 0]

RECURSIVE ReduceOctets(_, _)
ReduceOctets(nums, acc) ==
    IF nums = <<>> THEN acc
    ELSE ReduceOctets(Tail(nums), ShiftLeft8(acc) + Head(nums).val)

IpOfUint(u) == [null |-> FALSE, hi |-> u.hi, lo |-> u.lo]

IpOfNums(nums) ==
    IF \E i \in 1..4 : nums[i].nan \/ nums[i].val < 0 \/ nums[i].val > 255
    THEN IpNull
    ELSE IpOfUint(ToUint32(ReduceOctets(nums, 0)))

IpOfParts(parts) ==
    IF Len(parts) # 4 THEN IpNull
    ELSE IpOfNums([i \in 1..Len(parts) |-> ParseInt(parts[i])])

ipToInt(ip) == IpOfParts(Split(ip, 46))

\* The fallback branch for string bounds (lines 64-74).
StringRange(startInt, endInt, country) ==
    IF ~startInt.null /\ ~endInt.null
    THEN <<[start |-> Num(startInt.hi, startInt.lo),
            end |-> Num(endInt.hi, endInt.lo), country |-> country]>>
    ELSE <<>>

\* What one entry of the source contributes (lines 55-75).
RangesOfItem(item) ==
    IF item.form = "num"
    THEN <<[start |-> item.startN, end |-> item.endN, country |-> item.country]>>
    ELSE IF item.form = "str"
    THEN StringRange(ipToInt(item.startS), ipToInt(item.endS), item.country)
    ELSE <<>>

\* The ranges the loop of initGeoIpData pushes, in source order.
RECURSIVE CollectRanges(_)
CollectRanges(items) ==
    IF items = <<>> THEN <<>>
    ELSE RangesOfItem(Head(items)) \o CollectRanges(Tail(items))

\* ranges.sort((a, b) => a.start - b.start): a stable sort.
RECURSIVE InsertByStart(_, _)
InsertByStart(r, sorted) ==
    IF sorted = <<>> THEN <<r>>
    ELSE IF NumLess(r.start, Head(sorted).start) THEN <<r>> \o sorted
    ELSE <<Head(sorted)>> \o InsertByStart(r, Tail(sorted))

RECURSIVE SortFrom(_, _)
SortFrom(rs, sorted) ==
    IF rs = <<>> THEN sorted ELSE SortFrom(Tail(rs), InsertByStart(Head(rs), sorted))

\* The ranges left in source order.
NoSort(rs) == rs

SortByStart(rs) == SortFrom(rs, <<>>)

NullJson == [kind |-> "null", items |-> <<>>]

\* Lines 78-82.
LoadRanges(jsonString, rs) ==
    IF Len(rs) = 0
    THEN [ranges |-> <<>>, current |-> jsonString, status |-> "threw"]
    ELSE [ranges |-> SortByStart(rs), current |-> jsonString, status |-> "loaded"]

\* A call that leaves the ranges as they were when JSON.parse throws or no
\* list is found.
initGeoIpDataKeepsRanges(jsonString, ranges, current) ==
    IF jsonString.kind = "empty" \/ jsonString = current
    THEN [ranges |-> ranges, current |-> current, status |-> "noop"]
    ELSE IF jsonString.kind = "unparseable" \/ jsonString.kind = "noarray"
    THEN [ranges |-> ranges, current |-> jsonString, status |-> "threw"]
    ELSE LoadRanges(jsonString, CollectRanges(jsonString.items))

\* What one call leaves in ipv4Ranges and currentGeoIpJson, and how it ended:
\* "noop" (early return), "threw" or "loaded".
initGeoIpData(jsonString, ranges, current) ==
    IF jsonString.kind = "empty" \/ jsonString = current
    THEN [ranges |-> ranges, current |-> current, status |-> "noop"]
    ELSE IF jsonString.kind = "unparseable" \/ jsonString.kind = "noarray"
    THEN [ranges |-> <<>>, current |-> jsonString, status |-> "threw"]
    ELSE LoadRanges(jsonString, CollectRanges(jsonString.items))

\* The loop of getCountryForIp over 0-based low..high.
RECURSIVE BinarySearch(_, _, _, _)
BinarySearch(ranges, ipInt, low, high) ==
    IF low > high THEN <<>>
    ELSE LET mid   == (low + high) \div 2
             range == ranges[mid + 1]
         IN  IF NumLeq(range.start, ipInt) /\ NumLeq(ipInt, range.end)
             THEN range.country
             ELSE IF NumLess(ipInt, range.start)
             THEN BinarySearch(ranges, ipInt, low, mid - 1)
             ELSE BinarySearch(ranges, ipInt, mid + 1, high)

LookupInt(ipInt, ranges) ==
    IF ipInt.null THEN <<>>
    ELSE BinarySearch(ranges, Num(ipInt.hi, ipInt.lo), 0, Len(ranges) - 1)

getCountryForIp(ip, ranges) ==
    IF Len(ranges) = 0 THEN <<>> ELSE LookupInt(ipToInt(ip), ranges)

\* The keys of COUNTRY_COORDS.  A key stands for its coordinates.
COUNTRY_COORDS ==
    {
    <<65, 70>>, <<65, 76>>, <<68, 90>>, <<65, 82>>, <<65, 85>>, <<65, 84>>,
    <<66, 68>>, <<66, 69>>, <<66, 82>>, <<66, 71>>, <<67, 65>>, <<67, 76>>,
    <<67, 78>>, <<67, 79>>, <<67, 82>>, <<72, 82>>, <<67, 85>>, <<67, 90>>,
    <<68, 75>>, <<69, 71>>, <<70, 73>>, <<70, 82>>, <<68, 69>>, <<71, 82>>,
    <<72, 85>>, <<73, 83>>, <<73, 78>>, <<73, 68>>, <<73, 82>>, <<73, 81>>,
    <<73, 69>>, <<73, 76>>, <<73, 84>>, <<74, 80>>, <<74, 79>>, <<75, 90>>,
    <<75, 69>>, <<75, 87>>, <<77, 89>>, <<77, 88>>, <<77, 78>>, <<77, 65>>,
    <<78, 76>>, <<78, 90>>, <<78, 71>>, <<75, 80>>, <<78, 79>>, <<79, 77>>,
    <<80, 75>>, <<80, 65>>, <<80, 89>>, <<80, 69>>, <<80, 72>>, <<80, 76>>,
    <<80, 84>>, <<81, 65>>, <<82, 79>>, <<82, 85>>, <<83, 65>>, <<83, 71>>,
    <<90, 65>>, <<75, 82>>, <<69, 83>>, <<83, 69>>, <<67, 72>>, <<83, 89>>,
    <<84, 87>>, <<84, 72>>, <<84, 82>>, <<85, 65>>, <<65, 69>>, <<71, 66>>,
    <<85, 83>>, <<85, 89>>, <<86, 69>>, <<86, 78>>, <<89, 69>>, <<90, 77>>,
    <<90, 87>>
    }

(***************************************************************************)
(* parser.ts: classification and labels.                                   *)
(* An attribute is [uuid, type, object_relation, value, object_id]; an     *)
(* object is [uuid, name, metaCategory, info, Attribute, ObjectReference]; *)
(* a reference is [object_uuid, referenced_uuid].                          *)
(***************************************************************************)
S_domain == <<100, 111, 109, 97, 105, 110>>                       \* "domain"

S_url == <<117, 114, 108>>                                        \* "url"

S_file == <<102, 105, 108, 101>>                                  \* "file"

S_filename == <<102, 105, 108, 101, 110, 97, 109, 101>>           \* "filename"

S_hash == <<104, 97, 115, 104>>                                   \* "hash"

S_sha == <<115, 104, 97>>                                         \* "sha"

S_md5 == <<109, 100, 53>>                                         \* "md5"

S_ipDash == <<105, 112, 45>>                                      \* "ip-"

S_ip == <<105, 112>>                                              \* "ip"

S_network == <<110, 101, 116, 119, 111, 114, 107>>                \* "network"

S_detectionRatio ==                                          \* "detection-ratio"
    <<100, 101, 116, 101, 99, 116, 105, 111, 110, 45, 114, 97, 116, 105, 111>>

S_mispEvent == <<77, 73, 83, 80, 32, 69, 118, 101, 110, 116>>     \* "MISP Event"

mispToNodeType(obj) ==
    LET name         == ToLowerCase(obj.name)
        metaCategory == ToLowerCase(obj.metaCategory)
        A            == obj.Attribute
    IN  IF \E i \in DOMAIN A : StartsWith(A[i].type, S_ipDash) THEN "ip"
        ELSE IF \E i \in DOMAIN A : A[i].type = S_domain \/ A[i].type = S_url
        THEN "domain"
        ELSE IF \E i \in DOMAIN A :
                   \/ Includes(A[i].type, S_hash)
                   \/ Includes(A[i].type, S_sha)
                   \/ Includes(A[i].type, S_md5)
                   \/ A[i].type = S_filename
        THEN "file"
        ELSE IF Includes(name, S_file) \/ Includes(metaCategory, S_file) THEN "file"
        ELSE IF Includes(name, S_domain) \/ Includes(name, S_url) THEN "domain"
        ELSE IF Includes(name, S_ip) \/ Includes(metaCategory, S_network) THEN "ip"
        ELSE "main"

priorityAttributes ==
    << <<118, 97, 108, 117, 101>>,                      \* "value"
       S_domain,
       <<104, 111, 115, 116, 110, 97, 109, 101>>,       \* "hostname"
       S_url,
       <<105, 112, 45, 115, 114, 99>>,                  \* "ip-src"
       <<105, 112, 45, 100, 115, 116>>,                 \* "ip-dst"
       <<115, 104, 97, 50, 53, 54>>,                    \* "sha256"
       <<115, 104, 97, 49>>,                            \* "sha1"
       S_md5,
       S_filename >>

\* Array.prototype.find: the index of the first element satisfying P, 0 if none.
FirstIndex(seq, P(_)) ==
    IF \E i \in DOMAIN seq : P(seq[i])
    THEN CHOOSE i \in DOMAIN seq : P(seq[i]) /\ \A j \in 1..(i - 1) : ~P(seq[j])
    ELSE 0

\* Lines 29-32 without the test of line 29.
NoTruncate(label) == label

\* The display form of a label: values longer than 40 units keep their first
\* 20 and last 15 units around "...".
TruncateLabel(label) ==
    IF Len(label) > 40
    THEN SubstringTo(label, 20) \o <<46, 46, 46>> \o SubstringFrom(label, Len(label) - 15)
    ELSE label

Or3(a, b, c) == IF a # <<>> THEN a ELSE IF b # <<>> THEN b ELSE c

RECURSIVE LabelFrom(_, _)
LabelAt(obj, k, idx) ==
    IF idx # 0 /\ obj.Attribute[idx].value # <<>>
    THEN TruncateLabel(obj.Attribute[idx].value)
    ELSE LabelFrom(obj, k + 1)

LabelFrom(obj, k) ==
    IF k > Len(priorityAttributes) THEN Or3(obj.name, obj.info, obj.uuid)
    ELSE LET Match(a) == \/ a.type = priorityAttributes[k]
                         \/ a.object_relation = priorityAttributes[k]
         IN  LabelAt(obj, k, FirstIndex(obj.Attribute, Match))

getMispObjectLabel(obj) == LabelFrom(obj, 1)

(***************************************************************************)
(* parser.ts: parseThreatData up to the sandbox step.                      *)
(* A node is [id, type, label, isMalicious, geo]: isMalicious is "true",   *)
(* "false" or "undefined" (the field is absent); geo is the key of the     *)
(* COUNTRY_COORDS entry whose lat/lng the node carries, <<>> for none.     *)
(***************************************************************************)
MkNode(id, type, label, mal) ==
    [id |-> id, type |-> type, label |-> label, isMalicious |-> mal, geo |-> <<>>]

\* enrichNodeWithGeo: the node as it is left, and whether ipValue joins
\* geoEnrichedIps.
EnrichWith(node, ipValue, countryCode) ==
    LET hit == /\ node.type = "ip"
               /\ ipValue # <<>>
               /\ countryCode # <<>>
               /\ ToUpperCase(countryCode) \in COUNTRY_COORDS
    IN  [node |-> IF hit THEN [node EXCEPT !.geo = ToUpperCase(countryCode)] ELSE node,
         enriched |-> hit]

enrichNodeWithGeo(node, ipValue, ranges) ==
    EnrichWith(node, ipValue, getCountryForIp(ipValue, ranges))

\* First pass: the uuids of the objects whose detection ratio has a numerator
\* above 1.
NumeratorAboveOne(detections) == ~detections.nan /\ detections.val > 1

RatioAboveOne(ratio) == Len(ratio) = 2 /\ NumeratorAboveOne(ParseInt(ratio[1]))

DetectorAt(obj, idx) ==
    /\ idx # 0
    /\ obj.Attribute[idx].value # <<>>
    /\ RatioAboveOne(Split(obj.Attribute[idx].value, 47))

IsDetector(obj) ==
    LET IsRatio(a) == a.object_relation = S_detectionRatio
    IN  DetectorAt(obj, FirstIndex(obj.Attribute, IsRatio))

detectionRatioMap(objects) ==
    { objects[i].uuid : i \in { j \in DOMAIN objects : IsDetector(objects[j]) } }

ignoredObjectNames ==
    { <<118, 105, 114, 117, 115, 116, 111, 116, 97, 108, 45, 114, 101, 112, 111, 114, 116>>,
      <<118, 105, 114, 117, 115, 116, 111, 116, 97, 108, 45, 103, 114, 97, 112, 104>> }

\* Only the referencing end of each reference.
ReferenceSources(refs) == { refs[k].object_uuid : k \in DOMAIN refs }

\* Second pass: both ends of every reference listed under a detector.
ReferenceEnds(refs) ==
    UNION { {refs[k].object_uuid, refs[k].referenced_uuid} : k \in DOMAIN refs }

\* The second pass without the test of line 149.
AllReferenceEnds(objects) ==
    UNION { ReferenceEnds(objects[i].ObjectReference) : i \in DOMAIN objects }

maliciousNodeIds(objects) ==
    LET det == detectionRatioMap(objects)
    IN  UNION { ReferenceEnds(objects[i].ObjectReference) :
                i \in { j \in DOMAIN objects : objects[j].uuid \in det } }

\* nodes.push(node) with nodeIds.add(node.id), on [nodes, nodeIds, enriched];
\* done is what enrichNodeWithGeo left.
PushNode(st, done) ==
    [nodes    |-> Append(st.nodes, done.node),
     nodeIds  |-> st.nodeIds \cup {done.node.id},
     enriched |-> IF done.enriched THEN st.enriched \cup {done.node.label}
                  ELSE st.enriched]

\* Lines 175-181.
LabelIpNode(newNode, obj, idx, ranges) ==
    IF newNode.type = "ip" /\ idx # 0 /\ obj.Attribute[idx].value # <<>>
    THEN enrichNodeWithGeo([newNode EXCEPT !.label = obj.Attribute[idx].value],
                           obj.Attribute[idx].value, ranges)
    ELSE [node |-> newNode, enriched |-> FALSE]

\* Lines 170-181.
NewObjectNode(obj, mal, ranges) ==
    LET IsIp(a) == StartsWith(a.type, S_ipDash)
    IN  LabelIpNode(MkNode(obj.uuid, mispToNodeType(obj), getMispObjectLabel(obj),
                           IF obj.uuid \in mal THEN "true" ELSE "false"),
                    obj, FirstIndex(obj.Attribute, IsIp), ranges)

\* Lines 186-189.
FlagExisting(ns, uuid) ==
    [i \in DOMAIN ns |->
        IF ns[i].id = uuid /\ \A j \in 1..(i - 1) : ns[j].id # uuid
        THEN [ns[i] EXCEPT !.isMalicious = "true"]
        ELSE ns[i]]

\* The iteration without the test of line 169.
MaterializeObjectUnguarded(obj, st, mal, ranges) ==
    IF obj.name \in ignoredObjectNames THEN st
    ELSE PushNode(st, NewObjectNode(obj, mal, ranges))

\* One iteration of the object loop (lines 166-191) on the state
\* [nodes, nodeIds, enriched].
MaterializeObject(obj, st, mal, ranges) ==
    IF obj.name \in ignoredObjectNames THEN st
    ELSE IF obj.uuid \notin st.nodeIds THEN PushNode(st, NewObjectNode(obj, mal, ranges))
    ELSE IF obj.uuid \in mal THEN [st EXCEPT !.nodes = FlagExisting(@, obj.uuid)]
    ELSE st

RECURSIVE MaterializeObjects(_, _, _, _)
MaterializeObjects(objects, st, mal, ranges) ==
    IF objects = <<>> THEN st
    ELSE MaterializeObjects(Tail(objects),
                            MaterializeObject(Head(objects), st, mal, ranges),
                            mal, ranges)

\* The reference loop without the test of line 201.
RECURSIVE ReferenceLinksUnchecked(_, _)
ReferenceLinksUnchecked(refs, ids) ==
    IF refs = <<>> THEN <<>>
    ELSE <<[source |-> Head(refs).object_uuid, target |-> Head(refs).referenced_uuid]>>
         \o ReferenceLinksUnchecked(Tail(refs), ids)

\* The links of one object's references (lines 195-206).
RECURSIVE ReferenceLinks(_, _)
ReferenceLinks(refs, ids) ==
    IF refs = <<>> THEN <<>>
    ELSE LET sourceId == Head(refs).object_uuid
             targetId == Head(refs).referenced_uuid
         IN  (IF sourceId \in ids /\ targetId \in ids
              THEN <<[source |-> sourceId, target |-> targetId]>>
              ELSE <<>>) \o ReferenceLinks(Tail(refs), ids)

RECURSIVE ObjectLinks(_, _)
ObjectLinks(objects, ids) ==
    IF objects = <<>> THEN <<>>
    ELSE (IF Head(objects).name \in ignoredObjectNames THEN <<>>
          ELSE ReferenceLinks(Head(objects).ObjectReference, ids))
         \o ObjectLinks(Tail(objects), ids)

\* The type tests of lines 213-215 ending in the default of mispToNodeType.
AttributeNodeTypePermissive(attr) ==
    IF StartsWith(attr.type, S_ipDash) THEN "ip"
    ELSE IF attr.type = S_domain \/ attr.type = S_url THEN "domain"
    ELSE IF \/ Includes(attr.type, S_hash)
            \/ Includes(attr.type, S_sha)
            \/ Includes(attr.type, S_md5)
            \/ Includes(attr.type, S_filename)
    THEN "file"
    ELSE "main"

\* The node type of a top-level attribute, "none" when it is not graphed.
AttributeNodeType(attr) ==
    IF StartsWith(attr.type, S_ipDash) THEN "ip"
    ELSE IF attr.type = S_domain \/ attr.type = S_url THEN "domain"
    ELSE IF \/ Includes(attr.type, S_hash)
            \/ Includes(attr.type, S_sha)
            \/ Includes(attr.type, S_md5)
            \/ Includes(attr.type, S_filename)
    THEN "file"
    ELSE "none"

\* Lines 224-231 on [nodes, nodeIds, enriched, links].
PushAttributeNode(st, done, eventUuid) ==
    [nodes    |-> Append(st.nodes, done.node),
     nodeIds  |-> st.nodeIds \cup {done.node.id},
     enriched |-> IF done.enriched THEN st.enriched \cup {done.node.label}
                  ELSE st.enriched,
     links    |-> Append(st.links, [source |-> eventUuid, target |-> done.node.id])]

NewAttributeNode(attr, type, ranges) ==
    IF type = "ip"
    THEN enrichNodeWithGeo(MkNode(attr.uuid, type, attr.value, "undefined"),
                           attr.value, ranges)
    ELSE [node |-> MkNode(attr.uuid, type, attr.value, "undefined"), enriched |-> FALSE]

\* One iteration of the top-level attribute loop (lines 209-233) on the state
\* [nodes, nodeIds, enriched, links].
MaterializeAttribute(attr, st, eventUuid, ranges) ==
    IF attr.object_id # <<>> /\ attr.object_id \in st.nodeIds
    THEN IF eventUuid # attr.object_id
         THEN [st EXCEPT !.links =
                  Append(@, [source |-> eventUuid, target |-> attr.object_id])]
         ELSE st
    ELSE IF attr.uuid \in st.nodeIds \/ AttributeNodeType(attr) = "none" THEN st
    ELSE PushAttributeNode(st, NewAttributeNode(attr, AttributeNodeType(attr), ranges),
                           eventUuid)

RECURSIVE MaterializeAttributes(_, _, _, _)
MaterializeAttributes(attrs, st, eventUuid, ranges) ==
    IF attrs = <<>> THEN st
    ELSE MaterializeAttributes(Tail(attrs),
                               MaterializeAttribute(Head(attrs), st, eventUuid, ranges),
                               eventUuid, ranges)

\* Lines 194-207 on the state the object loop left.
WithObjectLinks(st, objects) ==
    [nodes |-> st.nodes, nodeIds |-> st.nodeIds, enriched |-> st.enriched,
     links |-> ObjectLinks(objects, st.nodeIds)]

\* Lines 160-163.
MainNode(mispEvent) ==
    MkNode(mispEvent.uuid, "main",
           IF mispEvent.info # <<>> THEN mispEvent.info ELSE S_mispEvent, "undefined")

\* Lines 109-235: the nodes, the accumulated links, nodeIds and the set of
\* geolocated addresses for an event, against the loaded ranges.
Normalize(mispEvent, ranges) ==
    MaterializeAttributes(
        mispEvent.Attribute,
        WithObjectLinks(
            MaterializeObjects(
                mispEvent.Object,
                [nodes |-> <<MainNode(mispEvent)>>, nodeIds |-> {mispEvent.uuid},
                 enriched |-> {}],
                maliciousNodeIds(mispEvent.Object), ranges),
            mispEvent.Object),
        mispEvent.uuid, ranges)

\* A null entry of mispEvent.Object is dereferenced by the first pass
\* (obj.Attribute, line 132), a null entry of mispEvent.Attribute by the
\* attribute loop (attr.object_id, line 210): either is a TypeError that
\* nothing in parseThreatData catches.
NormalizeThrows(mispEvent) ==
    \/ \E i \in DOMAIN mispEvent.Object : mispEvent.Object[i].isNull
    \/ \E k \in DOMAIN mispEvent.Attribute : mispEvent.Attribute[k].isNull

\* nodes.filter(n => n.type === 'ip' && n.label).map(n => n.label)
RECURSIVE ipAddressesOf(_)
ipAddressesOf(ns) ==
    IF ns = <<>> THEN <<>>
    ELSE (IF Head(ns).type = "ip" /\ Head(ns).label # <<>> THEN <<Head(ns).label>>
          ELSE <<>>) \o ipAddressesOf(Tail(ns))

(***************************************************************************)
(* parser.ts: the link deduplication (lines 248-260).                      *)
(***************************************************************************)
RECURSIVE FilterLinks(_, _)
KeepLink(ls, linkSet, uniqueId) ==
    IF Head(ls).source = Head(ls).target THEN FilterLinks(Tail(ls), linkSet)
    ELSE IF uniqueId \notin linkSet
    THEN <<Head(ls)>> \o FilterLinks(Tail(ls), linkSet \cup {uniqueId})
    ELSE FilterLinks(Tail(ls), linkSet)

FilterLinks(ls, linkSet) ==
    IF ls = <<>> THEN <<>>
    ELSE KeepLink(ls, linkSet, SortedJoin(Head(ls).source, Head(ls).target))

uniqueLinksOf(ls) == FilterLinks(ls, {})

(***************************************************************************)
(* parser.ts: _parseSandboxReport.                                         *)
(* A sandbox result is [shape, file_hash, processes_created,               *)
(* files_dropped, registry_keys_modified]; shape is "ok" for an object     *)
(* with a string file_hash and three arrays, and otherwise names the       *)
(* operand of the structural test of line 40 that refuses the value.       *)
(***************************************************************************)
S_sandboxFile ==                                               \* "sandbox-file-"
    <<115, 97, 110, 100, 98, 111, 120, 45, 102, 105, 108, 101, 45>>

S_proc == <<112, 114, 111, 99, 45>>                               \* "proc-"

S_fileDrop == <<102, 105, 108, 101, 45, 100, 114, 111, 112, 45>>  \* "file-drop-"

S_reg == <<114, 101, 103, 45>>                                    \* "reg-"

\* The test of line 40 without the test of line 44.
SandboxThrowsOnShape(data) ==
    \/ data.shape = "null"
    \/ data.shape = "notObject"
    \/ data.shape = "hashNotString"
    \/ data.shape = "procsNotArray"
    \/ data.shape = "filesNotArray"
    \/ data.shape = "keysNotArray"

\* Lines 40-46: the two tests that throw.
SandboxThrows(data) ==
    \/ data.shape = "null"              \* !sandboxData
    \/ data.shape = "notObject"         \* typeof sandboxData !== 'object'
    \/ data.shape = "hashNotString"     \* typeof sandboxData.file_hash !== 'string'
    \/ data.shape = "procsNotArray"     \* !Array.isArray(processes_created)
    \/ data.shape = "filesNotArray"     \* !Array.isArray(files_dropped)
    \/ data.shape = "keysNotArray"      \* !Array.isArray(registry_keys_modified)
    \/ data.file_hash = <<>>            \* !sandboxData.file_hash

\* addNode without the test of line 74.
addNodeUnguarded(st, fileNodeId, id, type, label) ==
    [nodes   |-> Append(st.nodes, MkNode(id, type, label, "undefined")),
     nodeIds |-> st.nodeIds \cup {id},
     links   |-> Append(st.links, [source |-> fileNodeId, target |-> id])]

\* addNode of _parseSandboxReport on the state [nodes, links, nodeIds].
addNode(st, fileNodeId, id, type, label) ==
    [nodes   |-> IF id \notin st.nodeIds
                 THEN Append(st.nodes, MkNode(id, type, label, "undefined"))
                 ELSE st.nodes,
     nodeIds |-> st.nodeIds \cup {id},
     links   |-> Append(st.links, [source |-> fileNodeId, target |-> id])]

\* forEach over one list of the sandbox result; i is the 0-based index.
RECURSIVE AddChildren(_, _, _, _, _, _, _)
AddChildren(items, i, st, fileNodeId, prefix, type, skip) ==
    IF i >= Len(items) THEN st
    ELSE AddChildren(items, i + 1,
             IF skip # <<>> /\ items[i + 1] = skip[1] THEN st
             ELSE addNode(st, fileNodeId,
                          prefix \o DecStr(i) \o <<45>> \o fileNodeId, type, items[i + 1]),
             fileNodeId, prefix, type, skip)

SetMalicious(ns, idx) ==
    [i \in DOMAIN ns |-> IF i = idx THEN [ns[i] EXCEPT !.isMalicious = "true"] ELSE ns[i]]

\* Lines 83-92 under the parent node nodes[fileIdx].
ExpandSandbox(data, st, fileNodeId, fileLabel) ==
    AddChildren(data.registry_keys_modified, 0,
        AddChildren(data.files_dropped, 0,
            AddChildren(data.processes_created, 0, st, fileNodeId, S_proc, "process",
                        <<>>),
            fileNodeId, S_fileDrop, "file", <<fileLabel>>),
        fileNodeId, S_reg, "registry_key", <<>>)

\* Lines 62/65 and on: flag nodes[fileIdx], then expand under it.
MergeUnder(data, st, fileIdx) ==
    ExpandSandbox(data, [st EXCEPT !.nodes = SetMalicious(@, fileIdx)],
                  st.nodes[fileIdx].id, st.nodes[fileIdx].label)

\* Lines 52-63: no file node carries the hash as its label.
MergeUnmatched(data, st, fileNodeId) ==
    IF fileNodeId \notin st.nodeIds
    THEN ExpandSandbox(data,
             [st EXCEPT !.nodes = Append(@, MkNode(fileNodeId, "file", data.file_hash,
                                                  "true")),
                        !.nodeIds = @ \cup {fileNodeId}],
             fileNodeId, data.file_hash)
    ELSE LET HasId(n) == n.id = fileNodeId
         IN  MergeUnder(data, st, FirstIndex(st.nodes, HasId))

MergeFound(data, st, found) ==
    IF found # 0 THEN MergeUnder(data, st, found)
    ELSE MergeUnmatched(data, st, S_sandboxFile \o data.file_hash)

\* Lines 48-92, for a result that passed validation, on [nodes, links, nodeIds].
sandboxMerge(data, st) ==
    LET IsSample(n) == n.label = data.file_hash /\ n.type = "file"
    IN  MergeFound(data, st, FirstIndex(st.nodes, IsSample))

(***************************************************************************)
(* App.tsx: findShortestPath.  adj is a function from the ids that have an *)
(* entry to their neighbour lists; the result is [kind, nodes, links] with *)
(* kind "null" for null.                                                   *)
(***************************************************************************)
EmptyAdj == [k \in {} |-> <<>>]

\* if (!adj.has(k)) adj.set(k, [])
AdjEnsure(m, k) ==
    IF k \in DOMAIN m THEN m
    ELSE [x \in (DOMAIN m) \cup {k} |-> IF x = k THEN <<>> ELSE m[x]]

\* adj.get(k)!.push(v)
AdjPush(m, k, v) == [m EXCEPT ![k] = Append(@, v)]

\* The iteration without the push of line 366.
AdjAddLinkOneWay(m, link) ==
    AdjPush(AdjEnsure(AdjEnsure(m, link.source), link.target),
            link.source, link.target)

\* One iteration of the forEach of lines 360-367.
AdjAddLink(m, link) ==
    AdjPush(AdjPush(AdjEnsure(AdjEnsure(m, link.source), link.target),
                    link.source, link.target),
            link.target, link.source)

RECURSIVE BuildAdj(_, _)
BuildAdj(ls, m) ==
    IF ls = <<>> THEN m ELSE BuildAdj(Tail(ls), AdjAddLink(m, Head(ls)))

\* adj.get(lastNodeId) || []
Neighbors(m, k) == IF k \in DOMAIN m THEN m[k] ELSE <<>>

\* The for loop of lines 397-403 on the queue and the visited set.
RECURSIVE EnqueueNeighbors(_, _, _, _)
EnqueueNeighbors(neighbors, path, q, vis) ==
    IF neighbors = <<>> THEN [queue |-> q, visited |-> vis]
    ELSE IF Head(neighbors) \notin vis
    THEN EnqueueNeighbors(Tail(neighbors), path,
                          Append(q, Append(path, Head(neighbors))),
                          vis \cup {Head(neighbors)})
    ELSE EnqueueNeighbors(Tail(neighbors), path, q, vis)

\* The key without the sort of line 380.
getLinkIdUnsorted(link) == UnsortedJoin(link.source, link.target)

getLinkId(link) == SortedJoin(link.source, link.target)

\* The queue taken from its last path.
QueuePop(q) == [path |-> q[Len(q)], rest |-> SubSeq(q, 1, Len(q) - 1)]

\* queue.shift(): the path taken and what is left.
QueueShift(q) == [path |-> Head(q), rest |-> Tail(q)]

\* pathLinks.add(key) on a Set kept in insertion order.
AddPathLink(acc, key) ==
    IF \E j \in DOMAIN acc : acc[j] = key THEN acc ELSE Append(acc, key)

\* Lines 386-391 for one step of the path; idx is what find returned (0: none).
StepLink(ls, idx, acc) ==
    IF idx = 0 THEN acc ELSE AddPathLink(acc, getLinkId(ls[idx]))

\* The for loop of lines 383-392.
RECURSIVE PathLinks(_, _, _, _)
PathLinks(path, i, ls, acc) ==
    IF i >= Len(path) THEN acc
    ELSE LET Joins(l) == \/ l.source = path[i] /\ l.target = path[i + 1]
                         \/ l.source = path[i + 1] /\ l.target = path[i]
         IN  PathLinks(path, i + 1, ls, StepLink(ls, FirstIndex(ls, Joins), acc))

NoPathResult == [kind |-> "none", nodes |-> <<>>, links |-> <<>>]

NullPath == [kind |-> "null", nodes |-> <<>>, links |-> <<>>]

\* The while loop of lines 372-405, run to its return.
RECURSIVE PathLoop(_, _, _, _)
PathFrom(taken, lastNodeId, vis, m, endId, ls) ==
    IF lastNodeId = endId
    THEN [kind |-> "path", nodes |-> taken.path,
          links |-> PathLinks(taken.path, 1, ls, <<>>)]
    ELSE PathLoop(EnqueueNeighbors(Neighbors(m, lastNodeId), taken.path, taken.rest, vis),
                  m, endId, ls)

PathShifted(taken, vis, m, endId, ls) ==
    PathFrom(taken, taken.path[Len(taken.path)], vis, m, endId, ls)

PathLoop(r, m, endId, ls) ==
    IF r.queue = <<>> THEN NullPath
    ELSE PathShifted(QueueShift(r.queue), r.visited, m, endId, ls)

\* findShortestPath as one call, on the graphData of its closure.
findShortestPath(graph, startId, endId) ==
    IF ~graph.loaded THEN NullPath
    ELSE PathLoop([queue |-> << <<startId>> >>, visited |-> {startId}],
                  BuildAdj(graph.links, EmptyAdj), endId, graph.links)

(***************************************************************************)
(* App.tsx: deriveAsGraph.  A node of the full graph is                    *)
(* [id, type, hasAsn, asn]; asNodesMap and asLinks are Maps, kept as       *)
(* sequences of entries in insertion order.                                *)
(***************************************************************************)
S_as == <<97, 115, 45>>                                           \* "as-"

AsIdOf(number) == S_as \o number

\* `AS${number}\n${name}`
AsLabel(asn) == <<65, 83>> \o asn.number \o <<10>> \o asn.name

\* The test of line 191 never finding the entry.
NoAsEntry(map, asId) == FALSE

HasAsEntry(map, asId) == \E i \in DOMAIN map : map[i].node.id = asId

\* asNodesMap.get(asId)!.childIpIds.add(node.id)
AddChildIp(map, asId, id) ==
    [i \in DOMAIN map |->
        IF map[i].node.id = asId
        THEN [map[i] EXCEPT !.childIpIds = @ \cup {id}]
        ELSE map[i]]

\* Lines 190-201 for a node that passed the test of line 189.
AddAsNode(map, node, asId) ==
    AddChildIp(IF HasAsEntry(map, asId) THEN map
               ELSE Append(map, [node |-> [id |-> asId, label |-> AsLabel(node.asn),
                                           type |-> "asn"],
                                 childIpIds |-> {}]),
               asId, node.id)

\* The forEach of lines 188-203.
RECURSIVE CollectAsNodes(_, _)
CollectAsNodes(ns, map) ==
    IF ns = <<>> THEN map
    ELSE CollectAsNodes(Tail(ns),
             IF Head(ns).type = "ip" /\ Head(ns).hasAsn
             THEN AddAsNode(map, Head(ns), AsIdOf(Head(ns).asn.number))
             ELSE map)

\* new Map(nodes.map(n => [n.id, n])).get(id): the last node with the id;
\* absent, a node without asn stands for undefined.
Undefined == [id |-> <<>>, type |-> "none", hasAsn |-> FALSE,
              asn |-> [number |-> <<>>, name |-> <<>>]]

RECURSIVE NodeMapGet(_, _)
NodeMapGet(ns, id) ==
    IF ns = <<>> THEN Undefined
    ELSE IF ns[Len(ns)].id = id THEN ns[Len(ns)]
    ELSE NodeMapGet(SubSeq(ns, 1, Len(ns) - 1), id)

\* Lines 210-215 with the key built from the ids unsorted.
SetAsLinkUnsorted(asLinks, asSourceId, asTargetId) ==
    IF \E i \in DOMAIN asLinks : asLinks[i].key = UnsortedJoin(asSourceId, asTargetId)
    THEN asLinks
    ELSE Append(asLinks, [key |-> UnsortedJoin(asSourceId, asTargetId),
                          link |-> [source |-> asSourceId, target |-> asTargetId]])

\* Lines 210-215.
SetAsLink(asLinks, asSourceId, asTargetId) ==
    IF \E i \in DOMAIN asLinks : asLinks[i].key = SortedJoin(asSourceId, asTargetId)
    THEN asLinks
    ELSE Append(asLinks, [key |-> SortedJoin(asSourceId, asTargetId),
                          link |-> [source |-> asSourceId, target |-> asTargetId]])

\* Lines 206-216 for one link.
AddAsLink(asLinks, sourceNode, targetNode) ==
    IF /\ sourceNode.hasAsn
       /\ targetNode.hasAsn
       /\ sourceNode.asn.number # targetNode.asn.number
    THEN SetAsLink(asLinks, AsIdOf(sourceNode.asn.number), AsIdOf(targetNode.asn.number))
    ELSE asLinks

\* The forEach of lines 205-217.
RECURSIVE CollectAsLinks(_, _, _)
CollectAsLinks(ls, ns, asLinks) ==
    IF ls = <<>> THEN asLinks
    ELSE CollectAsLinks(Tail(ls), ns,
             AddAsLink(asLinks, NodeMapGet(ns, Head(ls).source),
                       NodeMapGet(ns, Head(ls).target)))

NullGraph == [null |-> TRUE, nodes |-> <<>>, links |-> <<>>]

\* Lines 219-222.
AsGraphOf(asNodesMap, asLinks) ==
    IF Len(asNodesMap) = 0 THEN NullGraph
    ELSE [null  |-> FALSE,
          nodes |-> [i \in DOMAIN asNodesMap |-> asNodesMap[i].node],
          links |-> [i \in DOMAIN asLinks |-> asLinks[i].link]]

deriveAsGraph(graph) ==
    AsGraphOf(CollectAsNodes(graph.nodes, <<>>),
              CollectAsLinks(graph.links, graph.nodes, <<>>))

(***************************************************************************)
(* The inputs the geo index is exercised with.  An address is written from *)
(* its four octets; a GeoIP source is its parsed content.                  *)
(***************************************************************************)
Dotted(o) ==
    DecStr(o[1]) \o <<46>> \o DecStr(o[2]) \o <<46>> \o DecStr(o[3]) \o <<46>>
        \o DecStr(o[4])

\* Octets of the addresses used as range bounds and looked up.
GeoOctets ==
    { <<1, 0, 0, 0>>, <<1, 0, 0, 10>>, <<1, 0, 0, 255>>, <<2, 0, 0, 0>>,
      <<2, 0, 0, 255>>, <<3, 0, 0, 0>>, <<128, 0, 0, 0>>, <<200, 0, 0, 5>> }

GeoLookups ==
    { <<1, 0, 0, 10>>, <<1, 0, 0, 255>>, <<2, 0, 0, 0>>, <<3, 0, 0, 0>>,
      <<200, 0, 0, 5>> }

\* Texts that are not four octets: three parts, a part above 255, and a part
\* with a letter after its digits.
MalformedAddresses ==
    { <<49, 46, 48, 46, 48>>,                                     \* "1.0.0"
      <<49, 46, 48, 46, 48, 46, 50, 53, 54>>,                     \* "1.0.0.256"
      <<49, 46, 48, 46, 48, 46, 49, 48, 120>> }                   \* "1.0.0.10x"

\* The number an address stands for, straight from its octets.
OctetsValue(o) == Num(o[1] * 256 + o[2], o[3] * 256 + o[4])

StrItem(s, e, c) ==
    [form |-> "str", startN |-> Num(0, 0), endN |-> Num(0, 0),
     startS |-> s, endS |-> e, country |-> c]

NumItem(s, e, c) ==
    [form |-> "num", startN |-> s, endN |-> e,
     startS |-> <<>>, endS |-> <<>>, country |-> c]

\* An entry that is null or lacks a field: neither branch of the loop takes it.
BadItem ==
    [form |-> "bad", startN |-> Num(0, 0), endN |-> Num(0, 0),
     startS |-> <<>>, endS |-> <<>>, country |-> <<>>]

GeoItems ==
    { StrItem(Dotted(<<1, 0, 0, 0>>), Dotted(<<1, 0, 0, 255>>), <<65, 85>>),
      NumItem(OctetsValue(<<2, 0, 0, 0>>), OctetsValue(<<2, 0, 0, 255>>),
              <<117, 115>>),
      StrItem(Dotted(<<128, 0, 0, 0>>), Dotted(<<200, 0, 0, 5>>), <<68, 69>>),
      StrItem(<<49, 46, 48, 46, 48>>, Dotted(<<1, 0, 0, 255>>), <<65, 85>>),
      BadItem }

SeqsUpTo(S, n) == UNION { [1..k -> S] : k \in 0..n }

GeoSources ==
    { [kind |-> k, items |-> <<>>] : k \in {"empty", "unparseable", "noarray"} }
        \cup { [kind |-> "array", items |-> its] : its \in SeqsUpTo(GeoItems, MaxRanges) }
        \cup { [kind |-> "object", items |-> its] : its \in SeqsUpTo(GeoItems, 1) }

(***************************************************************************)
(* The reports, attribute lists and sandbox results the normalizer is      *)
(* exercised with.                                                         *)
(***************************************************************************)
Attr(uuid, type, rel, value, objectId) ==
    [uuid |-> uuid, type |-> type, object_relation |-> rel, value |-> value,
     object_id |-> objectId, isNull |-> FALSE]

Ref(from, to) == [object_uuid |-> from, referenced_uuid |-> to]

Obj(uuid, name, meta, attrs, refs) ==
    [uuid |-> uuid, name |-> name, metaCategory |-> meta, info |-> <<>>,
     Attribute |-> attrs, ObjectReference |-> refs, isNull |-> FALSE]

U_a == <<97>>

U_b == <<98>>

U_c == <<99>>

U_d == <<100>>

U_e == <<101>>

U_z == <<122>>

HashH == <<104>>

HashG == <<103>>

S_text == <<116, 101, 120, 116>>                                  \* "text"

RatioAttr(value) == Attr(<<>>, S_text, S_detectionRatio, value, <<>>)

\* A virustotal-report object (never a node) with ratio 5/80 that references a.
ObjVt ==
    Obj(U_d, <<118, 105, 114, 117, 115, 116, 111, 116, 97, 108, 45, 114, 101, 112, 111, 114, 116>>,
        <<109, 105, 115, 99>>, <<RatioAttr(<<53, 47, 56, 48>>)>>, <<Ref(U_d, U_a)>>)

\* A file object with ratio 5/80, labelled by its sha256, that references b.
ObjFileDetector ==
    Obj(U_d, S_file, S_file,
        <<Attr(<<>>, <<115, 104, 97, 50, 53, 54>>, <<115, 104, 97, 50, 53, 54>>, HashH, <<>>),
          RatioAttr(<<53, 47, 56, 48>>)>>,
        <<Ref(U_d, U_b)>>)

\* An ip object that references the detector and, twice, b.
ObjIp ==
    Obj(U_a, <<100, 111, 109, 97, 105, 110, 45, 105, 112>>, S_network,
        <<Attr(<<>>, <<105, 112, 45, 100, 115, 116>>, S_ip, Dotted(<<1, 0, 0, 10>>), <<>>)>>,
        <<Ref(U_a, U_d), Ref(U_a, U_b), Ref(U_a, U_b)>>)

\* A file object with a dangling reference, a reference to itself and a
\* reference back to the ip object.
ObjFile ==
    Obj(U_b, S_file, S_file,
        <<Attr(<<>>, S_md5, S_md5, <<109>>, <<>>)>>,
        <<Ref(U_b, U_z), Ref(U_b, U_b), Ref(U_b, U_a)>>)

\* An object with ratio 1/80 (no detector) and no classifying attribute.
ObjLowRatio ==
    Obj(U_c, <<111, 116, 104, 101, 114>>, <<>>,
        <<RatioAttr(<<49, 47, 56, 48>>)>>, <<Ref(U_c, U_a)>>)

\* A detector that reuses the event's uuid and lists a reference between
\* two other objects.
ObjEventUuid ==
    Obj(U_e, <<111, 116, 104, 101, 114>>, <<>>,
        <<RatioAttr(<<50, 47, 51>>)>>, <<Ref(U_b, U_c)>>)

\* An object whose uuid is the id the merge derives for the sample g.
ObjSandboxId ==
    Obj(S_sandboxFile \o HashG, <<111, 116, 104, 101, 114>>, <<>>, <<>>, <<>>)

\* A hash of 41 units, one more than a label keeps.
HashLong ==
    <<48, 49, 50, 51, 52, 53, 54, 55, 56, 57, 48, 49, 50, 51, 52, 53, 54, 55, 56, 57,
      48, 49, 50, 51, 52, 53, 54, 55, 56, 57, 48, 49, 50, 51, 52, 53, 54, 55, 56, 57,
      97>>

U_l == <<108>>

\* A file object labelled by a sha256 value longer than a label keeps.
ObjLongHash ==
    Obj(U_l, S_file, S_file,
        <<Attr(<<>>, <<115, 104, 97, 50, 53, 54>>, <<115, 104, 97, 50, 53, 54>>,
               HashLong, <<>>)>>,
        <<>>)

ObjectCatalog ==
    { ObjVt, ObjFileDetector, ObjIp, ObjFile, ObjLowRatio, ObjEventUuid, ObjSandboxId }

AttributeLists ==
    { <<>>,
      << Attr(<<120>>, <<105, 112, 45, 115, 114, 99>>, <<>>, Dotted(<<200, 0, 0, 5>>),
              <<48>>) >>,
      << Attr(U_d, <<115, 104, 97, 50, 53, 54>>, <<>>, HashH, <<>>),
         Attr(<<119>>, S_domain, <<>>, <<119>>, U_a) >>,
      << Attr(<<116>>, S_text, <<>>, <<116>>, <<>>),
         Attr(U_b, S_md5, <<>>, <<109>>, <<>>) >> }

\* null where an object is expected.
NullObject == [Obj(<<>>, <<>>, <<>>, <<>>, <<>>) EXCEPT !.isNull = TRUE]

\* null where an attribute is expected.
NullAttribute == [Attr(<<>>, <<>>, <<>>, <<>>, <<>>) EXCEPT !.isNull = TRUE]

MkEvent(objects, attrs) ==
    [uuid |-> U_e, info |-> <<>>, Attribute |-> attrs, Object |-> objects]

NoEvent == [hasEvent |-> FALSE, Event |-> MkEvent(<<>>, <<>>)]

\* Reports with one null entry among well-formed records: in the Object
\* list, in the top-level Attribute list, and in both.
MalformedReports ==
    { [hasEvent |-> TRUE, Event |-> MkEvent(<<ObjIp, NullObject, ObjFile>>, <<>>)],
      [hasEvent |-> TRUE,
       Event |-> MkEvent(<<ObjFileDetector, ObjFile>>,
                         << Attr(<<119>>, S_domain, <<>>, <<119>>, <<>>),
                            NullAttribute >>)],
      [hasEvent |-> TRUE,
       Event |-> MkEvent(<<NullObject>>, <<NullAttribute>>)] }

\* Reports with the file object whose hash is longer than a label keeps.
LongHashReports ==
    { [hasEvent |-> TRUE, Event |-> MkEvent(<<ObjLongHash>>, <<>>)],
      [hasEvent |-> TRUE, Event |-> MkEvent(<<ObjIp, ObjLongHash, ObjFile>>, <<>>)] }

U_x == <<120>>

U_y == <<121>>

\* A domain-ip object: a domain attribute before an ip-dst attribute.
ObjDomainIp ==
    Obj(U_x, <<100, 111, 109, 97, 105, 110, 45, 105, 112>>, S_network,
        <<Attr(<<>>, S_domain, S_domain, <<119>>, <<>>),
          Attr(<<>>, <<105, 112, 45, 100, 115, 116>>, S_ip, Dotted(<<1, 0, 0, 10>>), <<>>)>>,
        <<>>)

\* An object whose first domain attribute is empty, before a second domain
\* attribute and an md5.
ObjEmptyFirst ==
    Obj(U_y, <<111, 116, 104, 101, 114>>, <<>>,
        <<Attr(<<>>, S_domain, <<>>, <<>>, <<>>),
          Attr(<<>>, S_domain, <<>>, <<119>>, <<>>),
          Attr(<<>>, S_text, S_md5, <<109>>, <<>>)>>,
        <<>>)

\* Reports for the label rules: the two objects above with the long hash.
LabelReports ==
    { [hasEvent |-> TRUE, Event |-> MkEvent(<<ObjDomainIp>>, <<>>)],
      [hasEvent |-> TRUE,
       Event |-> MkEvent(<<ObjEmptyFirst, ObjLongHash, ObjDomainIp, ObjIp>>, <<>>)] }

U_ab == <<97, 45, 98>>                                            \* "a-b"

U_bc == <<98, 45, 99>>                                            \* "b-c"

\* Objects whose uuids hold the separator of the link key: "a-b", which
\* references c, and "b-c", which references a.
ObjAb == Obj(U_ab, <<111, 116, 104, 101, 114>>, <<>>, <<>>, <<Ref(U_ab, U_c)>>)

ObjBc == Obj(U_bc, <<111, 116, 104, 101, 114>>, <<>>, <<>>, <<Ref(U_bc, U_a)>>)

\* A report with the two between the objects a and c.
SeparatorReports ==
    { [hasEvent |-> TRUE,
       Event |-> MkEvent(<<ObjIp, ObjLowRatio, ObjAb, ObjBc>>, <<>>)] }

Reports ==
    {NoEvent} \cup MalformedReports \cup LongHashReports \cup LabelReports
        \cup SeparatorReports \cup
    { [hasEvent |-> TRUE, Event |-> MkEvent(objects, attrs)] :
        objects \in SeqsUpTo(ObjectCatalog, MaxObjects), attrs \in AttributeLists }

Sandbox(shape, hash, procs, files, keys) ==
    [shape |-> shape, file_hash |-> hash, processes_created |-> procs,
     files_dropped |-> files, registry_keys_modified |-> keys]

NoSandboxData == Sandbox("none", <<>>, <<>>, <<>>, <<>>)

SandboxResults ==
    { Sandbox("ok", HashH, << <<112>> >>, << HashH, <<102>> >>, << <<114>> >>),
      Sandbox("ok", HashG, << <<112>>, <<112>> >>, << HashG >>, <<>>),
      Sandbox("ok", HashLong, << <<112>> >>, <<>>, <<>>),
      Sandbox("ok", <<>>, <<>>, <<>>, <<>>),
      Sandbox("null", <<>>, <<>>, <<>>, <<>>),
      Sandbox("notObject", <<>>, <<>>, <<>>, <<>>),
      Sandbox("hashNotString", <<>>, << <<112>> >>, <<>>, <<>>),
      Sandbox("procsNotArray", HashH, <<>>, << <<102>> >>, <<>>),
      Sandbox("filesNotArray", HashH, << <<112>> >>, <<>>, <<>>),
      Sandbox("keysNotArray", HashH, << <<112>> >>, << <<102>> >>, <<>>) }

\* The GeoIP sources passed to parseThreatData.
ParseGeoSources ==
    { [kind |-> "empty", items |-> <<>>],
      [kind |-> "array",
       items |-> << StrItem(Dotted(<<1, 0, 0, 0>>), Dotted(<<1, 0, 0, 255>>),
                            <<65, 85>>) >>] }

(***************************************************************************)
(* The graphs the pathfinder and the AS projection are exercised with.     *)
(***************************************************************************)
Lk(s, e) == [source |-> s, target |-> e]

\* Two routes from a to e (a-b-e and a-d-c-e), a chord b-c, one link
\* repeated in reverse, a self-loop, and two links between ids that hold
\* the separator of the link key: "a-b" to "c" and "a" to "b-c".
PathLinkCatalog ==
    << Lk(U_a, U_b), Lk(U_a, U_d), Lk(U_d, U_c), Lk(U_c, U_e), Lk(U_b, U_e),
       Lk(U_b, U_c), Lk(U_b, U_a), Lk(U_c, U_c), Lk(U_ab, U_c), Lk(U_a, U_bc) >>

\* The links of the catalog picked by a set of indexes, in catalog order.
RECURSIVE PickLinks(_, _)
PickLinks(picked, i) ==
    IF i > Len(PathLinkCatalog) THEN <<>>
    ELSE (IF i \in picked THEN <<PathLinkCatalog[i]>> ELSE <<>>) \o PickLinks(picked, i + 1)

NoGraph == [loaded |-> FALSE, links |-> <<>>]

PathGraphs ==
    {NoGraph} \cup
    { [loaded |-> TRUE, links |-> PickLinks(picked, 1)] :
        picked \in { s \in SUBSET (DOMAIN PathLinkCatalog) : Cardinality(s) <= MaxLinks } }

\* z is an id no link mentions.
PathStarts == {U_a, U_b, U_z, U_ab}

PathEnds == {U_a, U_c, U_e, U_z, U_bc}

AsNode(id, type, hasAsn, number, name) ==
    [id |-> id, type |-> type, hasAsn |-> hasAsn,
     asn |-> [number |-> number, name |-> name]]

U_p == <<112>>

U_q == <<113>>

U_r == <<114>>

U_s == <<115>>

U_t == <<116>>

\* Two addresses of AS 1, one of AS 2, one not annotated, and a domain that
\* carries an asn.
AsNodeCatalog ==
    << AsNode(U_p, "ip", TRUE, <<49>>, <<120>>),
       AsNode(U_q, "ip", TRUE, <<49>>, <<120>>),
       AsNode(U_r, "ip", TRUE, <<50>>, <<121>>),
       AsNode(U_s, "ip", FALSE, <<>>, <<>>),
       AsNode(U_t, "domain", TRUE, <<51>>, <<119>>) >>

\* The nodes of the catalog picked by a set of indexes, in catalog order.
RECURSIVE PickNodes(_, _)
PickNodes(picked, i) ==
    IF i > Len(AsNodeCatalog) THEN <<>>
    ELSE (IF i \in picked THEN <<AsNodeCatalog[i]>> ELSE <<>>) \o PickNodes(picked, i + 1)

AsLinkCatalog ==
    { Lk(U_p, U_q), Lk(U_p, U_r), Lk(U_r, U_q), Lk(U_r, U_p), Lk(U_s, U_p),
      Lk(U_t, U_r), Lk(U_p, U_z) }

AsGraphs ==
    { [nodes |-> PickNodes(picked, 1), links |-> ls] :
        picked \in SUBSET (DOMAIN AsNodeCatalog),
        ls \in SeqsUpTo(AsLinkCatalog, MaxAsLinks) }

NoFullGraph == [nodes |-> <<>>, links |-> <<>>]

(***************************************************************************)
(* What the runs of handleVisualize are exercised with: the outcome of     *)
(* parseThreatData and what fetchAsnInfoForIps answers.                    *)
(***************************************************************************)
NoAsn == [number |-> <<>>, name |-> <<>>]

\* A node as parseThreatData returns it: no asn yet.
AppNode(id, type, label) ==
    [id |-> id, type |-> type, label |-> label, hasAsn |-> FALSE, asn |-> NoAsn]

IpOne == <<49>>

IpTwo == <<50>>

Outcome(kind, ns, ls) == [kind |-> kind, nodes |-> ns, links |-> ls]

\* Two reports that share the address IpOne under different node ids, a
\* report without addresses, a report without graphable content, and a
\* call that throws.
VisualizeOutcomes ==
    { Outcome("graph", << AppNode(U_e, "main", U_e), AppNode(U_p, "ip", IpOne),
                          AppNode(U_q, "ip", IpTwo) >>,
                       << Lk(U_e, U_p), Lk(U_p, U_q) >>),
      Outcome("graph", << AppNode(U_e, "main", U_e), AppNode(U_r, "ip", IpOne),
                          AppNode(U_t, "domain", U_t) >>,
                       << Lk(U_e, U_r), Lk(U_r, U_t) >>),
      Outcome("graph", << AppNode(U_e, "main", U_e), AppNode(U_t, "domain", U_t) >>,
                       << Lk(U_e, U_t) >>),
      Outcome("graph", <<>>, <<>>),
      Outcome("threw", <<>>, <<>>) }

AsnCatalog ==
    { [number |-> <<49>>, name |-> <<120>>], [number |-> <<50>>, name |-> <<121>>] }

\* The answers to a request for ips: an AS for some of the addresses asked.
AsnAnswers(ips) ==
    UNION { [asked -> AsnCatalog] : asked \in SUBSET { ips[i] : i \in DOMAIN ips } }

NullGraphData == [null |-> TRUE, nodes |-> <<>>, links |-> <<>>]

\* The graphs the pathfinder handlers run on: a and b joined, c apart; and
\* the chain a - b - c.
FinderGraphs ==
    { [loaded |-> TRUE, links |-> << Lk(U_a, U_b), Lk(U_c, U_d) >>],
      [loaded |-> TRUE, links |-> << Lk(U_b, U_a), Lk(U_b, U_c) >>] }

\* The nodes that are clicked.
FinderNodes == {U_a, U_b, U_c}

NoFinderResult == [null |-> TRUE, nodes |-> <<>>, links |-> <<>>]

NoRun == [kind |-> "none", nodes |-> <<>>, links |-> <<>>, enrichWithAsn |-> FALSE]

(***************************************************************************)
(* The state after construction.                                           *)
(***************************************************************************)
GeoFresh ==
    /\ ipv4Ranges = <<>>
    /\ currentGeoIpJson = NullJson
    /\ geoStatus = "none"
    /\ geoQuery = <<>>
    /\ geoAnswer = <<>>

ParseIdle ==
    /\ aiAvailable = FALSE
    /\ error = "none"
    /\ graphSet = FALSE
    /\ pc = "idle"
    /\ mispData = NoEvent
    /\ sandboxFile = FALSE
    /\ geoIpJson = NullJson
    /\ sandboxData = NoSandboxData
    /\ nodes = <<>>
    /\ links = <<>>
    /\ nodeIds = {}
    /\ uniqueLinks = <<>>
    /\ enrichedIpCount = 0
    /\ ipAddressesToEnrich = <<>>

PathIdle ==
    /\ pathPc = "idle"
    /\ graphData = NoGraph
    /\ startNodeId = <<>>
    /\ endNodeId = <<>>
    /\ adj = EmptyAdj
    /\ queue = <<>>
    /\ visited = {}
    /\ pathResult = NoPathResult

AsIdle ==
    /\ asPc = "idle"
    /\ fullGraph = NoFullGraph
    /\ asResult = NullGraph

EnrichIdle ==
    /\ currentGraphData = NullGraphData
    /\ asGraphData = NullGraph
    /\ isVisualizing = FALSE
    /\ pendingRun = NoRun
    /\ runCount = 0
    /\ graphRun = 0
    /\ asnFetches = {}

FinderIdle ==
    /\ isPathfinding = FALSE
    /\ pathfinderSelection = <<>>
    /\ pathfinderResult = NoFinderResult
    /\ isFindingPath = FALSE
    /\ finderError = "none"
    /\ narratives = <<>>
    /\ searches = 0

Init == GeoFresh /\ ParseIdle /\ PathIdle /\ AsIdle /\ EnrichIdle /\ FinderIdle

(***************************************************************************)
(* The geo index as a service: loads and lookups in any order.             *)
(***************************************************************************)
SetGeo(r) ==
    /\ ipv4Ranges' = r.ranges
    /\ currentGeoIpJson' = r.current
    /\ geoStatus' = r.status

GeoLoad(json) ==
    /\ SetGeo(initGeoIpData(json, ipv4Ranges, currentGeoIpJson))
    /\ geoQuery' = <<>>
    /\ geoAnswer' = <<>>
    /\ UNCHANGED <<parseVars, appVars>>

GeoLookup(ip) ==
    /\ geoQuery' = ip
    /\ geoAnswer' = getCountryForIp(ip, ipv4Ranges)
    /\ UNCHANGED <<ipv4Ranges, currentGeoIpJson, geoStatus>>
    /\ UNCHANGED <<parseVars, appVars>>

GeoNext ==
    \/ \E json \in GeoSources : GeoLoad(json)
    \/ \E o \in GeoLookups : GeoLookup(Dotted(o))
    \/ \E ip \in MalformedAddresses : GeoLookup(ip)

SpecGeo == Init /\ [][GeoNext]_vars

(***************************************************************************)
(* parseThreatData as its caller sees it: the call runs to its first       *)
(* await (the sandbox analysis) or to its return; the analysis resolves or *)
(* rejects; the merge runs; the rest of the function runs.                 *)
(***************************************************************************)
\* handleVisualize once parseThreatData has returned the nodes ns
\* (App.tsx:247-256): without nodes it reports that, else it sets the graph.
Shown(ns) ==
    /\ graphSet' = (ns # <<>>)
    /\ error' = IF ns = <<>> THEN "noNodes" ELSE "none"

\* handleVisualize once parseThreatData has thrown (App.tsx:287-289).
Failed ==
    /\ graphSet' = FALSE
    /\ error' = "thrown"

\* Where the call stands once lines 109-235 have run: at the await of line
\* 239, or returned with the links deduplicated.
Normalized(file, st) ==
    /\ nodes' = st.nodes
    /\ links' = st.links
    /\ nodeIds' = st.nodeIds
    /\ enrichedIpCount' = Cardinality(st.enriched)
    /\ ipAddressesToEnrich' = ipAddressesOf(st.nodes)
    /\ IF file
       THEN /\ pc' = "awaitSandbox"
            /\ uniqueLinks' = <<>>
            /\ UNCHANGED <<error, graphSet>>
       ELSE /\ pc' = "returned"
            /\ uniqueLinks' = uniqueLinksOf(st.links)
            /\ Shown(st.nodes)

\* The call ends in a TypeError raised within lines 131-233: no graph.
NormalizeThrew ==
    /\ pc' = "typeError"
    /\ Failed
    /\ nodes' = <<>>
    /\ links' = <<>>
    /\ nodeIds' = {}
    /\ uniqueLinks' = <<>>
    /\ enrichedIpCount' = 0
    /\ ipAddressesToEnrich' = <<>>

\* Lines 101-235 with what initGeoIpData left (its error is caught and logged).
ParseEvent(report, file, r) ==
    /\ SetGeo(r)
    /\ IF NormalizeThrows(report.Event)
       THEN NormalizeThrew
       ELSE Normalized(file, Normalize(report.Event, r.ranges))

\* The call with the GeoIP load of lines 101-107 before the test of line 96.
ParseCallLoadsFirst(report, file, json) ==
    /\ pc = "idle"
    /\ mispData' = report
    /\ sandboxFile' = file
    /\ geoIpJson' = json
    /\ sandboxData' = NoSandboxData
    /\ UNCHANGED <<aiAvailable, geoQuery, geoAnswer, appVars>>
    /\ IF ~report.hasEvent
       THEN /\ pc' = "returned"
            /\ Shown(<<>>)
            /\ nodes' = <<>>
            /\ links' = <<>>
            /\ nodeIds' = {}
            /\ uniqueLinks' = <<>>
            /\ enrichedIpCount' = 0
            /\ ipAddressesToEnrich' = <<>>
            /\ SetGeo(initGeoIpData(json, ipv4Ranges, currentGeoIpJson))
       ELSE ParseEvent(report, file,
                       initGeoIpData(json, ipv4Ranges, currentGeoIpJson))

\* handleVisualize (App.tsx:237-245) with an input that parses to report
\* calls parseThreatData, which runs lines 95-235, and 248-262 when no
\* sandbox file was passed.
ParseCall(report, file, json) ==
    /\ pc = "idle"
    /\ mispData' = report
    /\ sandboxFile' = file
    /\ geoIpJson' = json
    /\ sandboxData' = NoSandboxData
    /\ UNCHANGED <<aiAvailable, geoQuery, geoAnswer, appVars>>
    /\ IF ~report.hasEvent
       THEN /\ pc' = "returned"
            /\ Shown(<<>>)
            /\ nodes' = <<>>
            /\ links' = <<>>
            /\ nodeIds' = {}
            /\ uniqueLinks' = <<>>
            /\ enrichedIpCount' = 0
            /\ ipAddressesToEnrich' = <<>>
            /\ UNCHANGED <<ipv4Ranges, currentGeoIpJson, geoStatus>>
       ELSE ParseEvent(report, file,
                       initGeoIpData(json, ipv4Ranges, currentGeoIpJson))

Merged(st) ==
    /\ pc' = "merged"
    /\ UNCHANGED <<error, graphSet>>
    /\ nodes' = st.nodes
    /\ links' = st.links
    /\ nodeIds' = st.nodeIds

\* What analyzeSandboxPdfWithGemini resolves to when isAiAvailable() is
\* false: the fallbackData of its callAiWithFallback call.
DemoSandboxResult == Sandbox("ok", <<>>, <<>>, <<>>, <<>>)

\* analyzeSandboxPdfWithGemini resolves (with the fallback when no AI is
\* available, else with what the model answered) and _parseSandboxReport
\* runs (lines 239-240): it throws before it touches the graph, or merges.
SandboxResolved(data) ==
    /\ pc = "awaitSandbox"
    /\ aiAvailable \/ data = DemoSandboxResult
    /\ sandboxData' = data
    /\ IF SandboxThrows(data)
       THEN /\ pc' = "threw"
            /\ Failed
            /\ UNCHANGED <<nodes, links, nodeIds>>
       ELSE Merged(sandboxMerge(data, [nodes |-> nodes, links |-> links,
                                       nodeIds |-> nodeIds]))
    /\ UNCHANGED <<aiAvailable, mispData, sandboxFile, geoIpJson,
                   uniqueLinks, enrichedIpCount, ipAddressesToEnrich>>
    /\ UNCHANGED <<geoVars, appVars>>

\* analyzeSandboxPdfWithGemini rejects (the AI call failed; without AI the
\* fallback is returned instead): the catch of line 241 rethrows.
SandboxRejected ==
    /\ pc = "awaitSandbox"
    /\ aiAvailable
    /\ pc' = "threw"
    /\ Failed
    /\ UNCHANGED aiAvailable
    /\ UNCHANGED <<mispData, sandboxFile, geoIpJson, sandboxData, nodes, links, nodeIds,
                   uniqueLinks, enrichedIpCount, ipAddressesToEnrich>>
    /\ UNCHANGED <<geoVars, appVars>>

\* Lines 248-262 after the merge.
ParseFinish ==
    /\ pc = "merged"
    /\ pc' = "returned"
    /\ uniqueLinks' = uniqueLinksOf(links)
    /\ Shown(nodes)
    /\ UNCHANGED aiAvailable
    /\ UNCHANGED <<mispData, sandboxFile, geoIpJson, sandboxData, nodes, links, nodeIds,
                   enrichedIpCount, ipAddressesToEnrich>>
    /\ UNCHANGED <<geoVars, appVars>>

\* The next run of handleVisualize begins: it clears the error and the graph
\* (App.tsx:227-235); its call of parseThreatData starts from fresh locals
\* and the geo index as the last call left it.
ParseDone ==
    /\ pc \in {"returned", "threw", "typeError"}
    /\ pc' = "idle"
    /\ error' = "none"
    /\ graphSet' = FALSE
    /\ UNCHANGED aiAvailable
    /\ mispData' = NoEvent
    /\ sandboxFile' = FALSE
    /\ geoIpJson' = NullJson
    /\ sandboxData' = NoSandboxData
    /\ nodes' = <<>>
    /\ links' = <<>>
    /\ nodeIds' = {}
    /\ uniqueLinks' = <<>>
    /\ enrichedIpCount' = 0
    /\ ipAddressesToEnrich' = <<>>
    /\ UNCHANGED <<geoVars, appVars>>

\* setUserApiKey with a usable key, between two runs of handleVisualize.
setUserApiKey ==
    /\ pc = "idle"
    /\ ~aiAvailable
    /\ aiAvailable' = TRUE
    /\ UNCHANGED <<error, graphSet, pc, mispData, sandboxFile, geoIpJson, sandboxData,
                   nodes, links, nodeIds, uniqueLinks, enrichedIpCount,
                   ipAddressesToEnrich>>
    /\ UNCHANGED <<geoVars, appVars>>

\* clearUserApiKey with no key in the environment.
clearUserApiKey ==
    /\ pc = "idle"
    /\ aiAvailable
    /\ aiAvailable' = FALSE
    /\ UNCHANGED <<error, graphSet, pc, mispData, sandboxFile, geoIpJson, sandboxData,
                   nodes, links, nodeIds, uniqueLinks, enrichedIpCount,
                   ipAddressesToEnrich>>
    /\ UNCHANGED <<geoVars, appVars>>

ParseNext ==
    \/ setUserApiKey
    \/ clearUserApiKey
    \/ /\ pc = "idle"
       /\ \E report \in Reports, file \in BOOLEAN, json \in ParseGeoSources :
              ParseCall(report, file, json)
    \/ /\ pc = "awaitSandbox"
       /\ \E data \in SandboxResults : SandboxResolved(data)
    \/ SandboxRejected
    \/ ParseFinish
    \/ ParseDone

SpecParse == Init /\ [][ParseNext]_vars

(***************************************************************************)
(* findShortestPath, one iteration of its while loop at a time.            *)
(***************************************************************************)
\* Lines 357-370: up to the first test of the while loop.
PathCall(graph, startId, endId) ==
    /\ pathPc = "idle"
    /\ graphData' = graph
    /\ startNodeId' = startId
    /\ endNodeId' = endId
    /\ IF ~graph.loaded
       THEN /\ pathPc' = "done"
            /\ pathResult' = NullPath
            /\ adj' = EmptyAdj
            /\ queue' = <<>>
            /\ visited' = {}
       ELSE /\ pathPc' = "loop"
            /\ pathResult' = NoPathResult
            /\ adj' = BuildAdj(graph.links, EmptyAdj)
            /\ queue' = << <<startId>> >>
            /\ visited' = {startId}
    /\ UNCHANGED <<geoVars, parseVars, asVars, uiVars>>

Enqueued(r) ==
    /\ queue' = r.queue
    /\ visited' = r.visited

\* Lines 372-404 for the path taken off the queue; taken is what shift left.
PathVisit(taken, lastNodeId) ==
    IF lastNodeId = endNodeId
    THEN /\ pathPc' = "done"
         /\ pathResult' = [kind |-> "path", nodes |-> taken.path,
                           links |-> PathLinks(taken.path, 1, graphData.links, <<>>)]
         /\ queue' = taken.rest
         /\ UNCHANGED visited
    ELSE /\ Enqueued(EnqueueNeighbors(Neighbors(adj, lastNodeId), taken.path,
                                      taken.rest, visited))
         /\ UNCHANGED <<pathPc, pathResult>>

PathTake(taken) == PathVisit(taken, taken.path[Len(taken.path)])

\* One test of the while loop: an iteration, or the return null of line 405.
PathStep ==
    /\ pathPc = "loop"
    /\ IF queue = <<>>
       THEN /\ pathPc' = "done"
            /\ pathResult' = NullPath
            /\ UNCHANGED <<queue, visited>>
       ELSE PathTake(QueueShift(queue))
    /\ UNCHANGED <<graphData, startNodeId, endNodeId, adj>>
    /\ UNCHANGED <<geoVars, parseVars, asVars, uiVars>>

\* The caller has taken the result.
PathDone ==
    /\ pathPc = "done"
    /\ pathPc' = "idle"
    /\ graphData' = NoGraph
    /\ startNodeId' = <<>>
    /\ endNodeId' = <<>>
    /\ adj' = EmptyAdj
    /\ queue' = <<>>
    /\ visited' = {}
    /\ pathResult' = NoPathResult
    /\ UNCHANGED <<geoVars, parseVars, asVars, uiVars>>

PathNext ==
    \/ /\ pathPc = "idle"
       /\ \E graph \in PathGraphs, startId \in PathStarts, endId \in PathEnds :
              PathCall(graph, startId, endId)
    \/ PathStep
    \/ PathDone

\* The loop is straight-line code: once entered it keeps running.
SpecPath == Init /\ [][PathNext]_vars /\ WF_vars(PathStep)

(***************************************************************************)
(* deriveAsGraph, a pure function of the graph passed in.                  *)
(***************************************************************************)
DeriveCall(graph) ==
    /\ asPc = "idle"
    /\ asPc' = "returned"
    /\ fullGraph' = graph
    /\ asResult' = deriveAsGraph(graph)
    /\ UNCHANGED <<geoVars, parseVars, pathVars, uiVars>>

DeriveDone ==
    /\ asPc = "returned"
    /\ asPc' = "idle"
    /\ fullGraph' = NoFullGraph
    /\ asResult' = NullGraph
    /\ UNCHANGED <<geoVars, parseVars, pathVars, uiVars>>

AsNext ==
    \/ /\ asPc = "idle"
       /\ \E graph \in AsGraphs : DeriveCall(graph)
    \/ DeriveDone

SpecAs == Init /\ [][AsNext]_vars

(***************************************************************************)
(* handleVisualize and the background ASN enrichment.  The button is       *)
(* disabled while isVisualizing, so runs do not overlap; the fetch a run   *)
(* starts settles at any later time.                                       *)
(***************************************************************************)
\* Lines 227-245 without the reset of asGraphData of line 235.
VisualizeBeginKeepsAs(outcome, enrichWithAsn) ==
    /\ ~isVisualizing
    /\ runCount < MaxRuns
    /\ runCount' = runCount + 1
    /\ currentGraphData' = NullGraphData
    /\ isVisualizing' = TRUE
    /\ pendingRun' = [kind |-> outcome.kind, nodes |-> outcome.nodes,
                      links |-> outcome.links, enrichWithAsn |-> enrichWithAsn]
    /\ UNCHANGED <<asGraphData, graphRun, asnFetches>>
    /\ UNCHANGED <<geoVars, parseVars, pathVars, asVars, finderVars>>

\* Lines 227-245: the states are cleared and parseThreatData is awaited;
\* outcome is what it will settle with.
VisualizeBegin(outcome, enrichWithAsn) ==
    /\ ~isVisualizing
    /\ runCount < MaxRuns
    /\ runCount' = runCount + 1
    /\ currentGraphData' = NullGraphData
    /\ asGraphData' = NullGraph
    /\ isVisualizing' = TRUE
    /\ pendingRun' = [kind |-> outcome.kind, nodes |-> outcome.nodes,
                      links |-> outcome.links, enrichWithAsn |-> enrichWithAsn]
    /\ UNCHANGED <<graphRun, asnFetches>>
    /\ UNCHANGED <<geoVars, parseVars, pathVars, asVars, finderVars>>

\* Lines 258-260: the fetch is started when enrichment is on and the
\* report holds addresses.
StartFetch(ips) ==
    IF pendingRun.enrichWithAsn /\ Len(ips) > 0
    THEN asnFetches' = asnFetches \cup {[run |-> runCount, ips |-> ips]}
    ELSE UNCHANGED asnFetches

\* Lines 245-292 once parseThreatData has settled.
VisualizeSettle ==
    /\ isVisualizing
    /\ isVisualizing' = FALSE
    /\ pendingRun' = NoRun
    /\ IF pendingRun.kind = "graph" /\ Len(pendingRun.nodes) > 0
       THEN /\ currentGraphData' = [null |-> FALSE, nodes |-> pendingRun.nodes,
                                    links |-> pendingRun.links]
            /\ graphRun' = runCount
            /\ StartFetch(ipAddressesOf(pendingRun.nodes))
       ELSE UNCHANGED <<currentGraphData, graphRun, asnFetches>>
    /\ UNCHANGED <<asGraphData, runCount>>
    /\ UNCHANGED <<geoVars, parseVars, pathVars, asVars, finderVars>>

\* Lines 265-270: the nodes with the answer applied.
ApplyAsn(ns, asnData) ==
    [i \in DOMAIN ns |->
        IF ns[i].type = "ip" /\ ns[i].label \in DOMAIN asnData
        THEN [ns[i] EXCEPT !.hasAsn = TRUE, !.asn = asnData[ns[i].label]]
        ELSE ns[i]]

\* Lines 272-278 for the graph with the answer applied.
SetEnriched(finalGraphData) ==
    /\ currentGraphData' = finalGraphData
    /\ asGraphData' = deriveAsGraph(finalGraphData)

\* The then of lines 261-280: the updater runs on the graphData of the
\* moment the fetch resolves.
AsnFetched(fetch, asnData) ==
    /\ fetch \in asnFetches
    /\ asnFetches' = asnFetches \ {fetch}
    /\ IF currentGraphData.null
       THEN UNCHANGED <<currentGraphData, asGraphData>>
       ELSE SetEnriched([currentGraphData EXCEPT !.nodes = ApplyAsn(@, asnData)])
    /\ UNCHANGED <<isVisualizing, pendingRun, runCount, graphRun>>
    /\ UNCHANGED <<geoVars, parseVars, pathVars, asVars, finderVars>>

\* The catch of lines 281-284.
AsnFailed(fetch) ==
    /\ fetch \in asnFetches
    /\ asnFetches' = asnFetches \ {fetch}
    /\ UNCHANGED <<currentGraphData, asGraphData, isVisualizing, pendingRun, runCount,
                   graphRun>>
    /\ UNCHANGED <<geoVars, parseVars, pathVars, asVars, finderVars>>

EnrichNext ==
    \/ /\ ~isVisualizing
       /\ \E outcome \in VisualizeOutcomes, enrichWithAsn \in BOOLEAN :
              VisualizeBegin(outcome, enrichWithAsn)
    \/ VisualizeSettle
    \/ \E fetch \in asnFetches : \E asnData \in AsnAnswers(fetch.ips) :
           AsnFetched(fetch, asnData)
    \/ \E fetch \in asnFetches : AsnFailed(fetch)

SpecEnrich == Init /\ [][EnrichNext]_vars

(***************************************************************************)
(* The pathfinder handlers.  Each runs to its end or to its await; the     *)
(* narrative a search awaits settles at any later time.  The branch of     *)
(* handleNodeSelect outside pathfinder mode touches selectedNode and       *)
(* enrichmentData only, which are not part of the state kept here.         *)
(***************************************************************************)
OtherVarsUnchanged == UNCHANGED <<geoVars, parseVars, asVars, enrichVars>>

PathCallUnchanged ==
    UNCHANGED <<pathPc, startNodeId, endNodeId, adj, queue, visited, pathResult>>

\* A run of handleVisualize on a new input shows its graph:
\* clearAnalysisStates (App.tsx:163-181) and setError('') have run.
FinderShow(graph) ==
    /\ graph # graphData
    /\ graphData' = graph
    /\ isPathfinding' = FALSE
    /\ pathfinderSelection' = <<>>
    /\ pathfinderResult' = NoFinderResult
    /\ finderError' = "none"
    /\ searches' = 0
    /\ UNCHANGED <<isFindingPath, narratives>>
    /\ PathCallUnchanged
    /\ OtherVarsUnchanged

\* Lines 473-481.
handleTogglePathfinder ==
    /\ graphData.loaded
    /\ pathfinderResult' = NoFinderResult
    /\ pathfinderSelection' = <<>>
    /\ isPathfinding' = ~isPathfinding
    /\ searches' = 0
    /\ UNCHANGED <<isFindingPath, finderError, narratives>>
    /\ UNCHANGED pathVars
    /\ OtherVarsUnchanged

\* Lines 425-427 and 431-434 with the selection left as it is.
NoPathFoundKeepsSelection ==
    /\ finderError' = "noPath"
    /\ isFindingPath' = FALSE
    /\ isPathfinding' = FALSE
    /\ UNCHANGED <<pathfinderSelection, pathfinderResult, narratives>>

\* Lines 425-427 and 431-434: no path, the selection is reset.
NoPathFound ==
    /\ finderError' = "noPath"
    /\ pathfinderSelection' = <<>>
    /\ isFindingPath' = FALSE
    /\ isPathfinding' = FALSE
    /\ UNCHANGED <<pathfinderResult, narratives>>

\* Lines 413-424 for the second node: the search, and the await of the
\* narrative when a path was found.
SearchPath(newSelection, path) ==
    /\ searches' = searches + 1
    /\ IF path.kind = "path"
       THEN /\ Len(narratives) < MaxNarratives
            /\ pathfinderSelection' = newSelection
            /\ isFindingPath' = TRUE
            /\ finderError' = "none"
            /\ narratives' = Append(narratives, [nodes |-> path.nodes,
                                                 links |-> path.links])
            /\ UNCHANGED <<isPathfinding, pathfinderResult>>
       ELSE NoPathFound

\* Lines 408-436.
handleNodeSelectForPathfinder(newSelection) ==
    IF Len(newSelection) = 2
    THEN SearchPath(newSelection,
                    findShortestPath(graphData, newSelection[1], newSelection[2]))
    ELSE /\ pathfinderSelection' = newSelection
         /\ UNCHANGED <<isPathfinding, pathfinderResult, isFindingPath, finderError,
                        narratives, searches>>

\* Lines 438-451 in pathfinder mode.
handleNodeSelect(node) ==
    /\ isPathfinding
    /\ Len(pathfinderSelection) < MaxSelection
    /\ handleNodeSelectForPathfinder(Append(pathfinderSelection, node))
    /\ UNCHANGED pathVars
    /\ OtherVarsUnchanged

Without(seq, i) == SubSeq(seq, 1, i - 1) \o SubSeq(seq, i + 1, Len(seq))

\* The narrative resolves: lines 423 and 431-434.
NarrativeResolved(i) ==
    /\ i \in DOMAIN narratives
    /\ narratives' = Without(narratives, i)
    /\ pathfinderResult' = [null |-> FALSE, nodes |-> narratives[i].nodes,
                            links |-> narratives[i].links]
    /\ isFindingPath' = FALSE
    /\ isPathfinding' = FALSE
    /\ UNCHANGED <<pathfinderSelection, finderError, searches>>
    /\ UNCHANGED pathVars
    /\ OtherVarsUnchanged

\* The narrative rejects: lines 428-434.
NarrativeRejected(i) ==
    /\ i \in DOMAIN narratives
    /\ narratives' = Without(narratives, i)
    /\ finderError' = "failed"
    /\ pathfinderSelection' = <<>>
    /\ isFindingPath' = FALSE
    /\ isPathfinding' = FALSE
    /\ UNCHANGED <<pathfinderResult, searches>>
    /\ UNCHANGED pathVars
    /\ OtherVarsUnchanged

\* Lines 483-486; the modal that calls it is rendered when there is a
\* result (line 623).
closePathfinderModal ==
    /\ ~pathfinderResult.null
    /\ pathfinderResult' = NoFinderResult
    /\ pathfinderSelection' = <<>>
    /\ UNCHANGED <<isPathfinding, isFindingPath, finderError, narratives, searches>>
    /\ UNCHANGED pathVars
    /\ OtherVarsUnchanged

FinderNext ==
    \/ \E graph \in FinderGraphs : FinderShow(graph)
    \/ handleTogglePathfinder
    \/ /\ isPathfinding
       /\ \E node \in FinderNodes : handleNodeSelect(node)
    \/ \E i \in DOMAIN narratives : NarrativeResolved(i)
    \/ \E i \in DOMAIN narratives : NarrativeRejected(i)
    \/ closePathfinderModal

SpecFinder == Init /\ [][FinderNext]_vars

(***************************************************************************)
(* Properties of the graph parseThreatData builds.                         *)
(***************************************************************************)
NodeIdsOf(ns) == { ns[i].id : i \in DOMAIN ns }

\* The call has an Event and has returned its graph.
Returned == pc = "returned" /\ mispData.hasEvent

\* nodes is as normalization left it: no merge has touched it.
AfterNormalization ==
    /\ mispData.hasEvent
    /\ \/ pc = "awaitSandbox"
       \/ pc = "returned" /\ ~sandboxFile

\* C1: for a report with an Event, with or without a sandbox merge, every
\* link of the returned graph has its source and its target among the ids
\* of the returned nodes.
C1_LinksJoinReturnedNodes ==
    Returned =>
        \A i \in DOMAIN uniqueLinks :
            /\ uniqueLinks[i].source \in NodeIdsOf(nodes)
            /\ uniqueLinks[i].target \in NodeIdsOf(nodes)

\* A graph returned after a merge, from a report in which a graphed object
\* lists a reference to an object that has no node.
C1_Witness ==
    /\ Returned
    /\ sandboxFile
    /\ Len(uniqueLinks) >= 3
    /\ \E i \in DOMAIN mispData.Event.Object :
           /\ mispData.Event.Object[i].name \notin ignoredObjectNames
           /\ \E k \in DOMAIN mispData.Event.Object[i].ObjectReference :
                  /\ mispData.Event.Object[i].ObjectReference[k].object_uuid
                         \in NodeIdsOf(nodes)
                  /\ mispData.Event.Object[i].ObjectReference[k].referenced_uuid
                         \notin NodeIdsOf(nodes)

SamePair(l, m) ==
    {l.source, l.target} = {m.source, m.target}

\* C2: the deduplicated link list that parseThreatData returns holds no link
\* from a node to itself and no two links with the same unordered pair of
\* ends.
C2_NoSelfLoopNoRepeatedPair ==
    (pc = "returned") =>
        /\ \A i \in DOMAIN uniqueLinks : uniqueLinks[i].source # uniqueLinks[i].target
        /\ \A i, j \in DOMAIN uniqueLinks :
               SamePair(uniqueLinks[i], uniqueLinks[j]) => i = j

\* The accumulated links held a self-loop, a repeated link and a link with
\* its reverse, and the returned list kept some.
C2_Witness ==
    /\ pc = "returned"
    /\ Len(uniqueLinks) >= 2
    /\ \E i \in DOMAIN links : links[i].source = links[i].target
    /\ \E i, j \in DOMAIN links : i # j /\ links[i] = links[j]
    /\ \E i, j \in DOMAIN links :
           /\ links[i].source = links[j].target
           /\ links[i].target = links[j].source
           /\ links[i].source # links[i].target

\* The uuids of the objects of the event that are graphed.
GraphedObjectUuids ==
    { mispData.Event.Object[j].uuid :
        j \in { k \in DOMAIN mispData.Event.Object :
                  mispData.Event.Object[k].name \notin ignoredObjectNames } }

Flagged(id) ==
    /\ id \in NodeIdsOf(nodes)
    /\ \A i \in DOMAIN nodes : nodes[i].id = id => nodes[i].isMalicious = "true"

\* C5: when a detector object D (detection-ratio numerator above 1) lists a
\* reference from D to R, the node of D and the node of R carry
\* isMalicious = true once the report is normalized.
C5_DetectorAndReferencedAreFlagged ==
    (pc \notin {"idle", "typeError"} /\ mispData.hasEvent) =>
        \A i \in DOMAIN mispData.Event.Object :
            IsDetector(mispData.Event.Object[i]) =>
                \A k \in DOMAIN mispData.Event.Object[i].ObjectReference :
                    LET ref == mispData.Event.Object[i].ObjectReference[k]
                    IN  ref.object_uuid = mispData.Event.Object[i].uuid =>
                            \A id \in {ref.object_uuid, ref.referenced_uuid}
                                        \cap GraphedObjectUuids : Flagged(id)

\* A graphed detector with a reference to another graphed object, both flagged.
C5_Witness ==
    /\ pc = "awaitSandbox"
    /\ mispData.hasEvent
    /\ \E i \in DOMAIN mispData.Event.Object :
           /\ IsDetector(mispData.Event.Object[i])
           /\ \E k \in DOMAIN mispData.Event.Object[i].ObjectReference :
                  LET ref == mispData.Event.Object[i].ObjectReference[k]
                  IN  /\ ref.object_uuid = mispData.Event.Object[i].uuid
                      /\ ref.referenced_uuid # ref.object_uuid
                      /\ {ref.object_uuid, ref.referenced_uuid} \subseteq GraphedObjectUuids
                      /\ Flagged(ref.object_uuid)
                      /\ Flagged(ref.referenced_uuid)

\* The ids named by a reference that some detector object lists.
ListedUnderDetector ==
    { id \in UNION { {mispData.Event.Object[i].ObjectReference[k].object_uuid,
                      mispData.Event.Object[i].ObjectReference[k].referenced_uuid} :
                        <<i, k>> \in
                          { <<i, k>> \in (DOMAIN mispData.Event.Object) \X (1..4) :
                              k \in DOMAIN mispData.Event.Object[i].ObjectReference } } :
        \E i \in DOMAIN mispData.Event.Object :
            /\ IsDetector(mispData.Event.Object[i])
            /\ \E k \in DOMAIN mispData.Event.Object[i].ObjectReference :
                   id \in {mispData.Event.Object[i].ObjectReference[k].object_uuid,
                           mispData.Event.Object[i].ObjectReference[k].referenced_uuid} }

\* The ids of the nodes made from top-level attributes.
AttributeNodeIds ==
    (NodeIdsOf(nodes) \ (GraphedObjectUuids \cup {mispData.Event.uuid}))

\* C6: a node that normalization produced is flagged malicious only if its
\* id is an end of a reference listed under a detector object; any other
\* object node is false or undefined, and a node made from a top-level
\* attribute is never flagged.
C6_OnlyDetectorReferencesFlag ==
    AfterNormalization =>
        \A i \in DOMAIN nodes :
            /\ nodes[i].isMalicious = "true" => nodes[i].id \in ListedUnderDetector
            /\ nodes[i].id \in AttributeNodeIds => nodes[i].isMalicious = "undefined"

\* One flagged node, an unflagged object node that itself refers to a
\* detector, and an attribute node whose uuid a detector refers to.
C6_Witness ==
    /\ AfterNormalization
    /\ \E i \in DOMAIN nodes : nodes[i].isMalicious = "true"
    /\ \E i \in DOMAIN nodes :
           /\ nodes[i].isMalicious = "false"
           /\ \E j \in DOMAIN mispData.Event.Object :
                  /\ mispData.Event.Object[j].uuid = nodes[i].id
                  /\ \E k \in DOMAIN mispData.Event.Object[j].ObjectReference :
                         mispData.Event.Object[j].ObjectReference[k].referenced_uuid
                             \in detectionRatioMap(mispData.Event.Object)
    /\ \E i \in DOMAIN nodes :
           /\ nodes[i].id \in AttributeNodeIds
           /\ nodes[i].id \in ListedUnderDetector

\* The graph after the merge has run once more on what it left.
MergedAgain ==
    sandboxMerge(sandboxData, [nodes |-> nodes, links |-> links, nodeIds |-> nodeIds])

\* The id the merge derives for the sample belongs, if to any node, to a file
\* node labelled with the hash.
SampleIdIsSample ==
    \A i \in DOMAIN nodes :
        nodes[i].id = S_sandboxFile \o sandboxData.file_hash
            => nodes[i].label = sandboxData.file_hash /\ nodes[i].type = "file"

\* C9 as stated: a second merge of the same result leaves the node count and
\* the link count as the first merge left them.
C9_SecondMergeKeepsCounts ==
    (pc = "merged") =>
        /\ Len(MergedAgain.nodes) = Len(nodes)
        /\ Len(MergedAgain.links) = Len(links)

\* C9: a second merge of the same result leaves the node count as the first
\* merge left it, unless the graph held the derived sample id under another
\* node; it pushes every child link again, and the link count after
\* deduplication is as after the first merge.
C9_SecondMergeKeepsNodesAndUniqueLinks ==
    (pc = "merged") =>
        /\ SampleIdIsSample => Len(MergedAgain.nodes) = Len(nodes)
        /\ SampleIdIsSample =>
               Len(uniqueLinksOf(MergedAgain.links)) = Len(uniqueLinksOf(links))
        /\ Len(MergedAgain.links) >= Len(links)

\* A first merge that added children under a sample it had to create; the
\* second pushes their links again.
C9_Witness ==
    /\ pc = "merged"
    /\ SampleIdIsSample
    /\ \E i \in DOMAIN nodes : nodes[i].id = S_sandboxFile \o sandboxData.file_hash
    /\ \E i \in DOMAIN nodes : nodes[i].type = "process"
    /\ Len(MergedAgain.links) > Len(links)
    /\ Len(MergedAgain.nodes) = Len(nodes)

\* C11: in the graph parseThreatData returns no two nodes have the same id,
\* whatever the report and the sandbox result: objects and top-level
\* attributes may repeat a uuid or reuse the event uuid, and the merge adds
\* nodes under ids it derives.
C11_NodeIdsAreUnique ==
    (pc = "returned") =>
        \A i, j \in DOMAIN nodes : nodes[i].id = nodes[j].id => i = j

\* A graph returned after a merge that added nodes, from a report in which
\* two objects share a uuid, an object reuses the event uuid and a top-level
\* attribute that would be graphed reuses an object's uuid.
C11_Witness ==
    /\ Returned
    /\ sandboxFile
    /\ \E i \in DOMAIN nodes : nodes[i].type = "process"
    /\ \E i, j \in DOMAIN mispData.Event.Object :
           /\ i # j
           /\ mispData.Event.Object[i].uuid = mispData.Event.Object[j].uuid
           /\ mispData.Event.Object[i].name \notin ignoredObjectNames
           /\ mispData.Event.Object[j].name \notin ignoredObjectNames
    /\ \E i \in DOMAIN mispData.Event.Object :
           mispData.Event.Object[i].uuid = mispData.Event.uuid
    /\ \E k \in DOMAIN mispData.Event.Attribute :
           /\ AttributeNodeType(mispData.Event.Attribute[k]) # "none"
           /\ mispData.Event.Attribute[k].uuid \in GraphedObjectUuids

\* The positions of the returned nodes of type main.
MainNodes == { i \in DOMAIN nodes : nodes[i].type = "main" }

\* The graphed objects that mispToNodeType leaves at its default.
UnclassifiedObjectUuids ==
    { mispData.Event.Object[j].uuid :
        j \in { k \in DOMAIN mispData.Event.Object :
                  /\ mispData.Event.Object[k].name \notin ignoredObjectNames
                  /\ mispToNodeType(mispData.Event.Object[k]) = "main" } }

\* C12 as stated: a graph produced from a report with an Event holds exactly
\* one node of type main, the one whose id is the event uuid.
C12_ExactlyOneMainNode ==
    Returned =>
        /\ Cardinality(MainNodes) = 1
        /\ \A i \in MainNodes : nodes[i].id = mispData.Event.uuid

\* C12: a graph produced from a report with an Event holds the node whose id
\* is the event uuid exactly once, as its first node and with type main; any
\* other node of type main is the node of an object that type inference
\* left at its default.
C12_MainFirstOthersUnclassified ==
    Returned =>
        /\ nodes[1].id = mispData.Event.uuid
        /\ nodes[1].type = "main"
        /\ \A i \in DOMAIN nodes :
               i > 1 => /\ nodes[i].id # mispData.Event.uuid
                        /\ nodes[i].type = "main" =>
                               nodes[i].id \in UnclassifiedObjectUuids

\* A returned graph with a second node of type main, from a report that also
\* has a top-level attribute of no graphed type and an object that reuses
\* the event uuid.
C12_Witness ==
    /\ Returned
    /\ Cardinality(MainNodes) >= 2
    /\ \E k \in DOMAIN mispData.Event.Attribute :
           AttributeNodeType(mispData.Event.Attribute[k]) = "none"
    /\ \E j \in DOMAIN mispData.Event.Object :
           mispData.Event.Object[j].uuid = mispData.Event.uuid

\* C13: every graphed object that holds a reference whose referenced_uuid
\* is the uuid of a detector object carries isMalicious = true once the
\* report is normalized, as every object a detector refers to does.
C13_ReferrersOfDetectorAreFlagged ==
    AfterNormalization =>
        \A j \in DOMAIN mispData.Event.Object :
            (/\ mispData.Event.Object[j].name \notin ignoredObjectNames
             /\ \E k \in DOMAIN mispData.Event.Object[j].ObjectReference :
                    mispData.Event.Object[j].ObjectReference[k].referenced_uuid
                        \in detectionRatioMap(mispData.Event.Object))
                => Flagged(mispData.Event.Object[j].uuid)

\* The uuids of the file objects of the report that take their label from a
\* hash attribute whose value is the hash of the sandbox result, and whose
\* node is their own.
SampleObjectUuids ==
    { mispData.Event.Object[j].uuid :
        j \in { k \in DOMAIN mispData.Event.Object :
                  /\ mispData.Event.Object[k].name \notin ignoredObjectNames
                  /\ mispData.Event.Object[k].uuid # mispData.Event.uuid
                  /\ \A h \in 1..(k - 1) :
                         \/ mispData.Event.Object[h].uuid # mispData.Event.Object[k].uuid
                         \/ mispData.Event.Object[h].name \in ignoredObjectNames
                  /\ mispToNodeType(mispData.Event.Object[k]) = "file"
                  /\ getMispObjectLabel(mispData.Event.Object[k])
                         = TruncateLabel(sandboxData.file_hash)
                  /\ \E x \in DOMAIN mispData.Event.Object[k].Attribute :
                         /\ mispData.Event.Object[k].Attribute[x].value
                                = sandboxData.file_hash
                         /\ AttributeNodeType(mispData.Event.Object[k].Attribute[x])
                                = "file" } }

\* The merge took the node with this id for the sample: it is flagged, every
\* process node hangs under it, and no file node has the id derived from the
\* hash.
MergedInto(id) ==
    /\ Flagged(id)
    /\ \A i \in DOMAIN nodes :
           nodes[i].type = "process" =>
               \E k \in DOMAIN links :
                   links[k].source = id /\ links[k].target = nodes[i].id
    /\ \A i \in DOMAIN nodes :
           nodes[i].id = S_sandboxFile \o sandboxData.file_hash
               => nodes[i].type # "file"

\* C14: when the report holds a file object whose label-giving hash value
\* equals the file_hash of the sandbox result, whatever the length of the
\* hash, the merge flags that object's node, hangs the sandbox children
\* under it and creates no node sandbox-file-<hash>.
C14_MergeFindsSampleByFullHash ==
    (pc = "merged" /\ SampleObjectUuids # {}) =>
        \E id \in SampleObjectUuids : MergedInto(id)

\* The same for the hashes that a label keeps whole.
ShortHashIsCorrelated ==
    (pc = "merged" /\ SampleObjectUuids # {} /\ Len(sandboxData.file_hash) <= 40) =>
        \E id \in SampleObjectUuids : MergedInto(id)

\* A sandbox result that is not an object, or whose file_hash is not a
\* string or is empty, or one of whose three lists is not an array.
RefusedResult(data) ==
    \/ data.shape \in {"null", "notObject", "hashNotString", "procsNotArray",
                        "filesNotArray", "keysNotArray"}
    \/ data.shape = "ok" /\ data.file_hash = <<>>

\* C15: when the sandbox analysis resolves to a result that is not an object,
\* whose file_hash is not a string or is empty, or one of whose three lists
\* is not an array, the merge throws with nodes, links and flags as they
\* were, and parseThreatData ends in that error instead of a graph.
C15_RefusedResultThrowsUntouched ==
    [][(pc = "awaitSandbox" /\ RefusedResult(sandboxData'))
          => (pc' = "threw" /\ UNCHANGED <<nodes, links, nodeIds, uniqueLinks>>)]_vars

\* The call ended in the error of a refused result, over a graph of nodes
\* and links that normalization had built.
C15_Witness ==
    /\ pc = "threw"
    /\ RefusedResult(sandboxData)
    /\ sandboxData.file_hash # <<>>
    /\ Len(nodes) >= 3
    /\ Len(links) >= 2
    /\ \E i \in DOMAIN nodes : nodes[i].label = sandboxData.file_hash

\* C17: a call whose document is null, undefined or has no Event returns
\* no node, no link, enrichedIpCount 0 and no address to enrich; it does not
\* throw, leaves the geo index as it was whatever GeoIP source it was given,
\* and does not start the sandbox analysis.
C17_NoEventReturnsEmpty ==
    [][(pc = "idle" /\ pc' # "idle" /\ ~mispData'.hasEvent)
          => /\ pc' = "returned"
             /\ nodes' = <<>>
             /\ uniqueLinks' = <<>>
             /\ enrichedIpCount' = 0
             /\ ipAddressesToEnrich' = <<>>
             /\ sandboxData' = NoSandboxData
             /\ UNCHANGED geoVars]_vars

\* A call without Event has returned; it was given a sandbox file and a
\* GeoIP source with a valid range, and the geo index holds nothing.
C17_Witness ==
    /\ pc = "returned"
    /\ ~mispData.hasEvent
    /\ sandboxFile
    /\ geoIpJson.kind = "array"
    /\ CollectRanges(geoIpJson.items) # <<>>
    /\ currentGeoIpJson = NullJson
    /\ nodes = <<>>

\* The event without its null entries.
WellFormedRecords(mispEvent) ==
    LET IsRecord(x) == ~x.isNull
    IN  [mispEvent EXCEPT !.Object = SelectSeq(@, IsRecord),
                          !.Attribute = SelectSeq(@, IsRecord)]

\* C18: for a report with an Event, a malformed record in the Object list or
\* the top-level Attribute list (a null entry) does not make normalization
\* throw: the record is skipped, and the nodes and links of the well-formed
\* records are produced as if it were not there.
C18_MalformedRecordIsSkipped ==
    (pc # "idle" /\ mispData.hasEvent /\ NormalizeThrows(mispData.Event)) =>
        /\ pc # "typeError"
        /\ AfterNormalization =>
               /\ nodes = Normalize(WellFormedRecords(mispData.Event), ipv4Ranges).nodes
               /\ links = Normalize(WellFormedRecords(mispData.Event), ipv4Ranges).links

\* The run of handleVisualize has ended, for a well-formed report with an
\* Event and without an API key.
DemoRunEnded ==
    /\ pc \in {"returned", "threw", "typeError"}
    /\ ~aiAvailable
    /\ mispData.hasEvent
    /\ ~NormalizeThrows(mispData.Event)

\* C20: without an API key, Visualize Report on a valid report with an Event
\* ends with the graph set and no error, also when a sandbox PDF is
\* selected.
C20_DemoModeStillVisualizes ==
    DemoRunEnded => (graphSet /\ error = "none")

\* The same for the runs in which no sandbox PDF is selected.
DemoModeVisualizesWithoutSandbox ==
    (DemoRunEnded /\ ~sandboxFile) => (graphSet /\ error = "none")

\* The attribute carries the name as its type or as its object_relation.
Named(attr, name) == attr.type = name \/ attr.object_relation = name

\* The objects that became nodes: not ignored, not under the event's uuid,
\* and the first such object with their uuid.
MaterializedObjects ==
    { j \in DOMAIN mispData.Event.Object :
        /\ mispData.Event.Object[j].name \notin ignoredObjectNames
        /\ mispData.Event.Object[j].uuid # mispData.Event.uuid
        /\ \A k \in 1..(j - 1) :
               \/ mispData.Event.Object[k].name \in ignoredObjectNames
               \/ mispData.Event.Object[k].uuid # mispData.Event.Object[j].uuid }

\* The label of the node with the id.
LabelOf(id) == nodes[CHOOSE i \in DOMAIN nodes : nodes[i].id = id].label

\* The first 20 and the last 15 units around "..." for more than 40 units.
Displayed(v) ==
    IF Len(v) > 40
    THEN SubSeq(v, 1, 20) \o <<46, 46, 46>> \o SubSeq(v, Len(v) - 14, Len(v))
    ELSE v

\* The non-empty attributes of the object named by the k-th priority name.
NamedNonEmpty(obj, k) ==
    { i \in DOMAIN obj.Attribute :
        Named(obj.Attribute[i], priorityAttributes[k]) /\ obj.Attribute[i].value # <<>> }

\* The value the claim names: of the first non-empty attribute named by the
\* earliest priority name that names a non-empty attribute.
ClaimedValue(obj) ==
    LET k == CHOOSE n \in DOMAIN priorityAttributes :
                 /\ NamedNonEmpty(obj, n) # {}
                 /\ \A m \in 1..(n - 1) : NamedNonEmpty(obj, m) = {}
        i == CHOOSE a \in NamedNonEmpty(obj, k) : \A c \in NamedNonEmpty(obj, k) : a <= c
    IN  obj.Attribute[i].value

\* C25: every materialized object with a non-empty attribute named in the
\* priority list is labelled by the value of the attribute matching the
\* earliest name of the list, in display form, whatever its node type.
C25_LabelIsFirstPriorityValue ==
    (pc \notin {"idle", "typeError"} /\ mispData.hasEvent) =>
        \A j \in MaterializedObjects :
            (\E k \in DOMAIN priorityAttributes :
                 NamedNonEmpty(mispData.Event.Object[j], k) # {})
                => LabelOf(mispData.Event.Object[j].uuid)
                       = Displayed(ClaimedValue(mispData.Event.Object[j]))

\* The first attribute of the object the name names is not empty.
FirstNamedIsSet(obj, name) ==
    \E i \in DOMAIN obj.Attribute :
        /\ Named(obj.Attribute[i], name)
        /\ obj.Attribute[i].value # <<>>
        /\ \A h \in 1..(i - 1) : ~Named(obj.Attribute[h], name)

\* The value of the first attribute the earliest such name names.
PriorityValue(obj) ==
    LET k == CHOOSE n \in DOMAIN priorityAttributes :
                 /\ FirstNamedIsSet(obj, priorityAttributes[n])
                 /\ \A m \in 1..(n - 1) : ~FirstNamedIsSet(obj, priorityAttributes[m])
        i == CHOOSE a \in DOMAIN obj.Attribute :
                 /\ Named(obj.Attribute[a], priorityAttributes[k])
                 /\ \A h \in 1..(a - 1) : ~Named(obj.Attribute[h], priorityAttributes[k])
    IN  obj.Attribute[i].value

\* The object is classified ip and its first attribute whose type starts
\* with "ip-" is not empty.
HasIpValue(obj) ==
    /\ mispToNodeType(obj) = "ip"
    /\ \E i \in DOMAIN obj.Attribute :
           /\ StartsWith(obj.Attribute[i].type, S_ipDash)
           /\ obj.Attribute[i].value # <<>>
           /\ \A h \in 1..(i - 1) : ~StartsWith(obj.Attribute[h].type, S_ipDash)

IpValue(obj) ==
    obj.Attribute[CHOOSE i \in DOMAIN obj.Attribute :
                      /\ StartsWith(obj.Attribute[i].type, S_ipDash)
                      /\ \A h \in 1..(i - 1) :
                             ~StartsWith(obj.Attribute[h].type, S_ipDash)].value

\* C25 as the code has it: an object classified ip is labelled by the
\* value of its first "ip-" attribute, in full, when that is not empty; any
\* other materialized object for which the first attribute matching some
\* priority name is not empty is labelled by the display form of the value
\* of the first attribute matching the earliest such name.
C25_LabelIsIpValueOrPriorityValue ==
    (pc \notin {"idle", "typeError"} /\ mispData.hasEvent) =>
        \A j \in MaterializedObjects :
            IF HasIpValue(mispData.Event.Object[j])
            THEN LabelOf(mispData.Event.Object[j].uuid)
                     = IpValue(mispData.Event.Object[j])
            ELSE (\E k \in DOMAIN priorityAttributes :
                      FirstNamedIsSet(mispData.Event.Object[j], priorityAttributes[k]))
                     => LabelOf(mispData.Event.Object[j].uuid)
                            = Displayed(PriorityValue(mispData.Event.Object[j]))

\* A returned graph in which the domain-ip object is labelled by its
\* address, the long hash by its display form, and the object whose first
\* domain attribute is empty by its md5.
C25_Witness ==
    /\ Returned
    /\ \E i \in DOMAIN nodes :
           nodes[i].id = U_x /\ nodes[i].label = Dotted(<<1, 0, 0, 10>>)
    /\ \E i \in DOMAIN nodes :
           nodes[i].id = U_l /\ Len(nodes[i].label) = 38
    /\ \E i \in DOMAIN nodes :
           nodes[i].id = U_y /\ nodes[i].label = <<109>>

\* C27: a call of parseThreatData with an empty GeoIP source geolocates no
\* node and counts no enriched address, whatever sources earlier calls
\* loaded: its result depends on its arguments only.
C27_EmptySourceGeolocatesNothing ==
    (pc \notin {"idle", "typeError"} /\ mispData.hasEvent /\ geoIpJson.kind = "empty") =>
        /\ enrichedIpCount = 0
        /\ \A i \in DOMAIN nodes : nodes[i].geo = <<>>

\* The same for the calls before which no source was loaded.
EmptySourceOnFreshIndex ==
    (/\ pc \notin {"idle", "typeError"}
     /\ mispData.hasEvent
     /\ geoIpJson.kind = "empty"
     /\ ipv4Ranges = <<>>) =>
        /\ enrichedIpCount = 0
        /\ \A i \in DOMAIN nodes : nodes[i].geo = <<>>

\* The links of the returned list that join the pair of ends of l.
KeptFor(l) == { j \in DOMAIN uniqueLinks : SamePair(uniqueLinks[j], l) }

\* C29: every unordered pair of different ids that occurs in the
\* accumulated links occurs exactly once in the returned links, as its
\* first occurrence, whatever the ids are.
C29_EveryPairKeptOnce ==
    (pc = "returned") =>
        \A i \in DOMAIN links :
            links[i].source # links[i].target =>
                /\ Cardinality(KeptFor(links[i])) = 1
                /\ \A j \in KeptFor(links[i]) :
                       \E f \in 1..i :
                           /\ uniqueLinks[j] = links[f]
                           /\ \A h \in 1..(f - 1) : ~SamePair(links[h], links[i])

\* No two links with different pairs of ends share a key.
KeysTellPairsApart ==
    \A i, j \in DOMAIN links :
        SortedJoin(links[i].source, links[i].target)
            = SortedJoin(links[j].source, links[j].target)
                => SamePair(links[i], links[j])

\* The same where the keys tell the pairs apart.
EveryPairKeptOnceWhereKeysDiffer ==
    (pc = "returned" /\ KeysTellPairsApart) =>
        \A i \in DOMAIN links :
            links[i].source # links[i].target =>
                /\ Cardinality(KeptFor(links[i])) = 1
                /\ \A j \in KeptFor(links[i]) :
                       \E f \in 1..i :
                           /\ uniqueLinks[j] = links[f]
                           /\ \A h \in 1..(f - 1) : ~SamePair(links[h], links[i])

(***************************************************************************)
(* Properties of findShortestPath.                                         *)
(***************************************************************************)
\* Some link of the graph joins u and v, in either direction.
Joined(ls, u, v) ==
    \E i \in DOMAIN ls :
        \/ ls[i].source = u /\ ls[i].target = v
        \/ ls[i].source = v /\ ls[i].target = u

\* The ids at most k links away from s, the links read as undirected.
RECURSIVE Within(_, _, _)
Within(ls, s, k) ==
    IF k = 0 THEN {s}
    ELSE LET near == Within(ls, s, k - 1)
         IN  near \cup { ls[i].target : i \in { j \in DOMAIN ls : ls[j].source \in near } }
                  \cup { ls[i].source : i \in { j \in DOMAIN ls : ls[j].target \in near } }

Reachable(ls, s, e) == e \in Within(ls, s, Len(ls))

\* C3: a path that findShortestPath returns starts at startId, ends at
\* endId, has every two consecutive nodes joined by a link of the graph in
\* one direction or the other, and has no more edges than any other such
\* path; from a node to itself it is that node alone, with no links.
C3_ReturnedPathIsShortest ==
    (pathPc = "done" /\ pathResult.kind = "path") =>
        /\ pathResult.nodes[1] = startNodeId
        /\ pathResult.nodes[Len(pathResult.nodes)] = endNodeId
        /\ \A i \in 1..(Len(pathResult.nodes) - 1) :
               Joined(graphData.links, pathResult.nodes[i], pathResult.nodes[i + 1])
        /\ \A k \in 0..(Len(pathResult.nodes) - 2) :
               endNodeId \notin Within(graphData.links, startNodeId, k)
        /\ startNodeId = endNodeId =>
               pathResult.nodes = <<startNodeId>> /\ pathResult.links = <<>>

\* The two-edge route a-b-e returned where the three-edge route a-d-c-e
\* exists as well.
C3_Witness ==
    /\ pathPc = "done"
    /\ pathResult.kind = "path"
    /\ pathResult.nodes = <<U_a, U_b, U_e>>
    /\ Len(pathResult.links) = 2
    /\ Joined(graphData.links, U_a, U_d)
    /\ Joined(graphData.links, U_d, U_c)
    /\ Joined(graphData.links, U_c, U_e)

\* C4: with a graph loaded, findShortestPath returns null exactly when
\* endId cannot be reached from startId over the links read as undirected
\* edges; every call ends with a path or with null, also on graphs with
\* cycles and repeated links.
C4_NullExactlyWhenUnreachable ==
    /\ [](pathPc = "done" => pathResult.kind \in {"null", "path"})
    /\ []((pathPc = "done" /\ graphData.loaded) =>
            (pathResult.kind = "null"
                <=> ~Reachable(graphData.links, startNodeId, endNodeId)))
    /\ (pathPc = "loop") ~> (pathPc = "done")

\* null returned on a graph that holds a cycle, a repeated link and a
\* self-loop, for two ids that links of the graph mention.
C4_Witness ==
    /\ pathPc = "done"
    /\ graphData.loaded
    /\ pathResult.kind = "null"
    /\ Len(graphData.links) >= 4
    /\ \E i, j \in DOMAIN graphData.links :
           /\ i # j
           /\ graphData.links[i].source = graphData.links[j].target
           /\ graphData.links[i].target = graphData.links[j].source
    /\ \E i \in DOMAIN graphData.links :
           startNodeId \in {graphData.links[i].source, graphData.links[i].target}
    /\ \E i \in DOMAIN graphData.links :
           endNodeId \in {graphData.links[i].source, graphData.links[i].target}

\* The links are what the deduplication of parseThreatData leaves of them.
Deduplicated(ls) == uniqueLinksOf(ls) = ls

\* The call run one iteration at a time returns what the call run at once
\* returns.
StepwiseIsWhole ==
    (pathPc = "done") => pathResult = findShortestPath(graphData, startNodeId, endNodeId)

\* C21: a path that findShortestPath returns over a deduplicated graph
\* carries one link key per consecutive pair of its nodes, in path order:
\* the sorted pair of the two ids joined by the separator, none missing and
\* none twice, whatever the ids are.
C21_OneKeyPerPathEdge ==
    (pathPc = "done" /\ pathResult.kind = "path" /\ Deduplicated(graphData.links)) =>
        /\ Len(pathResult.links) = Len(pathResult.nodes) - 1
        /\ \A i \in DOMAIN pathResult.links :
               /\ pathResult.links[i] =
                      SortedJoin(pathResult.nodes[i], pathResult.nodes[i + 1])
               /\ \E k \in DOMAIN graphData.links :
                      /\ {graphData.links[k].source, graphData.links[k].target}
                            = {pathResult.nodes[i], pathResult.nodes[i + 1]}
                      /\ pathResult.links[i] = getLinkId(graphData.links[k])
        /\ \A i, j \in DOMAIN pathResult.links :
               pathResult.links[i] = pathResult.links[j] => i = j

\* A path of three edges over a deduplicated graph that starts at the id
\* "a-b", which holds the separator, and runs over a link stored against the
\* direction of travel.
C21_Witness ==
    /\ pathPc = "done"
    /\ pathResult.kind = "path"
    /\ Deduplicated(graphData.links)
    /\ pathResult.nodes = <<U_ab, U_c, U_b, U_a>>
    /\ Len(pathResult.links) = 3

(***************************************************************************)
(* Properties of deriveAsGraph.                                            *)
(***************************************************************************)
\* The AS numbers found on the ip nodes of the graph passed in.
IpAsNumbers ==
    { fullGraph.nodes[i].asn.number :
        i \in { j \in DOMAIN fullGraph.nodes :
                  fullGraph.nodes[j].type = "ip" /\ fullGraph.nodes[j].hasAsn } }

\* C7: deriveAsGraph returns null exactly when no ip node of its input
\* carries asn; otherwise its nodes are one node of type asn with id
\* as-<number> for each distinct number found on ip nodes, and nothing else.
C7_OneAsNodePerNumber ==
    (asPc = "returned") =>
        /\ asResult.null <=> IpAsNumbers = {}
        /\ ~asResult.null =>
               /\ { asResult.nodes[i].id : i \in DOMAIN asResult.nodes }
                      = { AsIdOf(number) : number \in IpAsNumbers }
               /\ \A i, j \in DOMAIN asResult.nodes :
                      asResult.nodes[i].id = asResult.nodes[j].id => i = j
               /\ \A i \in DOMAIN asResult.nodes : asResult.nodes[i].type = "asn"

\* Two addresses of AS 1 and one of AS 2 give two AS nodes.
C7_Witness ==
    /\ asPc = "returned"
    /\ ~asResult.null
    /\ Len(asResult.nodes) = 2
    /\ Cardinality({ j \in DOMAIN fullGraph.nodes :
                       fullGraph.nodes[j].type = "ip" /\ fullGraph.nodes[j].hasAsn }) = 3

\* asn is carried by ip nodes only.
OnlyIpCarriesAsn ==
    \A i \in DOMAIN fullGraph.nodes :
        fullGraph.nodes[i].hasAsn => fullGraph.nodes[i].type = "ip"

\* Some link of the input joins an ip node of AS x and an ip node of AS y.
AsJoined(x, y) ==
    \E l \in DOMAIN fullGraph.links, i, j \in DOMAIN fullGraph.nodes :
        /\ fullGraph.nodes[i].type = "ip" /\ fullGraph.nodes[i].hasAsn
        /\ fullGraph.nodes[j].type = "ip" /\ fullGraph.nodes[j].hasAsn
        /\ fullGraph.nodes[i].asn.number = x
        /\ fullGraph.nodes[j].asn.number = y
        /\ \/ /\ fullGraph.links[l].source = fullGraph.nodes[i].id
              /\ fullGraph.links[l].target = fullGraph.nodes[j].id
           \/ /\ fullGraph.links[l].source = fullGraph.nodes[j].id
              /\ fullGraph.links[l].target = fullGraph.nodes[i].id

\* C8: when only ip nodes carry asn, the links of the derived graph are one
\* link between as-x and as-y for each unordered pair of distinct AS numbers
\* that some source link joins, whatever the direction or the number of such
\* links; links inside one AS give none, and no derived link is a self-loop.
C8_OneAsLinkPerJoinedPair ==
    (asPc = "returned" /\ ~asResult.null /\ OnlyIpCarriesAsn) =>
        /\ \A x, y \in IpAsNumbers :
               (x # y /\ AsJoined(x, y)) <=>
                   \E i \in DOMAIN asResult.links :
                       {asResult.links[i].source, asResult.links[i].target}
                           = {AsIdOf(x), AsIdOf(y)}
        /\ \A i \in DOMAIN asResult.links :
               /\ asResult.links[i].source # asResult.links[i].target
               /\ \E x, y \in IpAsNumbers :
                      /\ asResult.links[i].source = AsIdOf(x)
                      /\ asResult.links[i].target = AsIdOf(y)
        /\ \A i, j \in DOMAIN asResult.links :
               SamePair(asResult.links[i], asResult.links[j]) => i = j

\* Three source links, two of them between AS 1 and AS 2 in opposite
\* directions and one inside AS 1, give one derived link.
C8_Witness ==
    /\ asPc = "returned"
    /\ OnlyIpCarriesAsn
    /\ Len(asResult.links) = 1
    /\ fullGraph.links = << Lk(U_p, U_q), Lk(U_p, U_r), Lk(U_r, U_q) >>
    /\ Len(fullGraph.nodes) >= 3

\* The ids of the derived nodes.
AsNodeIds == { asResult.nodes[i].id : i \in DOMAIN asResult.nodes }

RefValues(s) == { OctetsValue(o) : o \in { p \in GeoOctets : Dotted(p) = s } }

\* The ranges a source holds: index, bounds and country of each usable entry.
RefRanges(json) ==
    { [i |-> i, start |-> s, end |-> e, country |-> json.items[i].country] :
        <<i, s, e>> \in
          { <<i, s, e>> \in
              (DOMAIN json.items) \X { OctetsValue(o) : o \in GeoOctets }
                                  \X { OctetsValue(o) : o \in GeoOctets } :
              \/ /\ json.items[i].form = "num"
                 /\ s = json.items[i].startN
                 /\ e = json.items[i].endN
              \/ /\ json.items[i].form = "str"
                 /\ s \in RefValues(json.items[i].startS)
                 /\ e \in RefValues(json.items[i].endS) } }

RefContains(r, v) == NumLeq(r.start, v) /\ NumLeq(v, r.end)

RefWellFormed(json) ==
    /\ \A r \in RefRanges(json) : NumLeq(r.start, r.end)
    /\ \A r, q \in RefRanges(json) :
           r.i # q.i => (NumLess(r.end, q.start) \/ NumLess(q.end, r.start))

RefCountry(json, v) ==
    IF \E r \in RefRanges(json) : RefContains(r, v)
    THEN (CHOOSE r \in RefRanges(json) : RefContains(r, v)).country
    ELSE <<>>

\* A source that parses to a list (or to an object holding one) in which no
\* entry is a usable range.
HoldsNoValidRange(json) ==
    json.kind \in {"array", "object"} /\ RefRanges(json) = {}

\* C16: every call of initGeoIpData with a non-empty source that holds no
\* valid range ends in an error, a call that repeats the source of a failed
\* call included.
C16_LoadWithoutRangesAlwaysThrows ==
    [][\A json \in GeoSources :
          (HoldsNoValidRange(json) /\ GeoLoad(json)) => geoStatus' = "threw"]_vars

\* The part is a number in 0..255 written in decimal digits.
IsOctetText(part) ==
    /\ part # <<>>
    /\ \A i \in DOMAIN part : IsDigit(part[i])
    /\ DigitsValue(part, 0) <= 255

IsDottedQuad(parts) ==
    /\ Len(parts) = 4
    /\ \A i \in DOMAIN parts : IsOctetText(parts[i])

\* a * 2^24 + b * 2^16 + c * 2^8 + d for the four parts.
QuadValue(parts) ==
    Num(DigitsValue(parts[1], 0) * 256 + DigitsValue(parts[2], 0),
        DigitsValue(parts[3], 0) * 256 + DigitsValue(parts[4], 0))

\* For the text of four octets last looked up, ipToInt gives
\* a * 2^24 + b * 2^16 + c * 2^8 + d, which is not negative.
QuadIsPackedBigEndian ==
    IsDottedQuad(Split(geoQuery, 46)) =>
        /\ ipToInt(geoQuery) = IpOfUint(QuadValue(Split(geoQuery, 46)))
        /\ ipToInt(geoQuery).hi \in 0..65535
        /\ ipToInt(geoQuery).lo \in 0..65535

\* C24: ipToInt gives a * 2^24 + b * 2^16 + c * 2^8 + d for the text of
\* four octets a.b.c.d, never a negative value; for a text that does not
\* split into four parts, or with a part that is not a number in 0..255,
\* it gives no value and getCountryForIp returns null.
C24_FourOctetsOrNoValue ==
    /\ QuadIsPackedBigEndian
    /\ ~IsDottedQuad(Split(geoQuery, 46)) =>
           (ipToInt(geoQuery).null /\ geoAnswer = <<>>)

\* C30: a call of initGeoIpData that throws leaves the index empty, whatever
\* an earlier call loaded; while the index is empty every lookup returns
\* null; and the index stops being empty only by a call that loads a source
\* different from the one last processed.
C30_FailedLoadEmptiesIndex ==
    [][/\ geoStatus' = "threw" => ipv4Ranges' = <<>>
       /\ (ipv4Ranges = <<>> /\ geoQuery' # <<>>) => geoAnswer' = <<>>
       /\ (ipv4Ranges = <<>> /\ ipv4Ranges' # <<>>) =>
              (geoStatus' = "loaded" /\ currentGeoIpJson' # currentGeoIpJson)]_vars

\* The source last processed does not parse, the call that followed it
\* returned early, and an address of a range that sources can hold was
\* looked up and not found.
C30_Witness ==
    /\ currentGeoIpJson.kind = "unparseable"
    /\ geoStatus = "noop"
    /\ ipv4Ranges = <<>>
    /\ geoQuery = Dotted(<<1, 0, 0, 10>>)
    /\ geoAnswer = <<>>

\* C10: after a successful load of pairwise disjoint ranges with
\* start <= end, a lookup of a well-formed address returns the country of
\* the one range that contains it, and null when none does, in whatever
\* order the source lists the ranges.
C10_LookupFindsContainingRange ==
    (/\ geoQuery # <<>>
     /\ Len(ipv4Ranges) > 0
     /\ RefWellFormed(currentGeoIpJson))
        => \A o \in GeoOctets :
               Dotted(o) = geoQuery
                   => geoAnswer = RefCountry(currentGeoIpJson, OctetsValue(o))

\* A hit in the upper of two ranges that the source lists in descending order.
C10_Witness ==
    /\ geoQuery = Dotted(<<200, 0, 0, 5>>)
    /\ geoAnswer = <<68, 69>>
    /\ Len(ipv4Ranges) = 2
    /\ Len(currentGeoIpJson.items) = 2
    /\ currentGeoIpJson.items[1].startS = Dotted(<<128, 0, 0, 0>>)
    /\ currentGeoIpJson.items[2].startS = Dotted(<<1, 0, 0, 0>>)
    /\ RefWellFormed(currentGeoIpJson)

(***************************************************************************)
(* Properties of the ASN enrichment.                                       *)
(***************************************************************************)
\* C22: asGraphData is null or is deriveAsGraph of the graphData displayed,
\* in every state, however runs of handleVisualize and answers of
\* fetchAsnInfoForIps interleave.
C22_AsGraphIsOfDisplayedGraph ==
    \/ asGraphData = NullGraph
    \/ /\ ~currentGraphData.null
       /\ asGraphData = deriveAsGraph(currentGraphData)

\* An AS graph is displayed for the graph of the second run after the
\* answer for the first run arrived while the first graph was displayed.
C22_Witness ==
    /\ graphRun = 2
    /\ asnFetches = {}
    /\ ~asGraphData.null
    /\ Len(asGraphData.nodes) = 1
    /\ \E i \in DOMAIN currentGraphData.nodes : currentGraphData.nodes[i].id = U_r

\* C26: an answer of fetchAsnInfoForIps that settles while the graph of a
\* later run is displayed changes neither that graph nor its AS graph.
C26_LateAnswerChangesNothing ==
    [][\A fetch \in asnFetches :
          (fetch \notin asnFetches' /\ ~currentGraphData.null /\ fetch.run # graphRun)
              => UNCHANGED <<currentGraphData, asGraphData>>]_vars

(***************************************************************************)
(* Properties of the pathfinder handlers.                                  *)
(***************************************************************************)
\* While pathfinder mode is on no result is displayed.
ModeOnHasNoResult == isPathfinding => pathfinderResult.null

\* C23: when the second node is selected in pathfinder mode and
\* findShortestPath returns null, the handler ends with the error set, the
\* selection empty, the mode off, the finding flag off and no result; a
\* narrative that rejects resets the selection and the mode as well.
C23_NoPathResetsPathfinder ==
    [][/\ \A node \in FinderNodes :
            (/\ handleNodeSelect(node)
             /\ Len(pathfinderSelection) = 1
             /\ findShortestPath(graphData, pathfinderSelection[1], node).kind = "null")
                => (/\ finderError' = "noPath"
                    /\ pathfinderSelection' = <<>>
                    /\ ~isPathfinding'
                    /\ ~isFindingPath'
                    /\ pathfinderResult'.null)
       /\ \A i \in DOMAIN narratives :
            NarrativeRejected(i)
                => (/\ finderError' = "failed"
                    /\ pathfinderSelection' = <<>>
                    /\ ~isPathfinding'
                    /\ ~isFindingPath')]_vars

\* No path was found between two different nodes that links of the graph
\* mention, while the narrative of an earlier search was still awaited.
C23_Witness ==
    /\ finderError = "noPath"
    /\ pathfinderSelection = <<>>
    /\ ~isPathfinding
    /\ ~isFindingPath
    /\ pathfinderResult.null
    /\ Len(narratives) = 1
    /\ searches = 1

\* C28: the selection holds at most two nodes and at most one search is
\* started while pathfinder mode stays on, in every state.
C28_TwoNodesOneSearch ==
    /\ Len(pathfinderSelection) <= 2
    /\ searches <= 1

\* The second half alone.
OneSearchPerActivation == searches <= 1

====
